---------------------------- MODULE Spec2Model ----------------------------
(***************************************************************************)
(* Model of the native-side support layer of the classroom app             *)
(* (src/src-tauri/src): the JSON configuration store, the CSV path         *)
(* validator, the window geometry commands and the microphone permission   *)
(* probe.                                                                  *)
(*                                                                         *)
(* Text is a sequence of Unicode code points.  A path is a sequence of     *)
(* component names, each name a text.                                      *)
(***************************************************************************)
EXTENDS Integers, Sequences, FiniteSets, TLC

VARIABLES
    cfgPathOk,    \* get_config_path() can resolve the data directory
    cfgDir,       \* state of the config directory on disk
    cfgFile,      \* the config file on disk: Absent or [readable, writable, text]
    cfgPrev,      \* cfgFile as it was before the last ConfigStore call
    cfgLast,      \* the last ConfigStore call and what it returned
    cfgLastSave,  \* the last save_config call: [ok, key, val]
    cfgSaved,     \* key -> value of every save that returned Ok so far
    links,        \* the symbolic links currently present in the file system
    vreq,         \* the arguments of validate_csv_path: [path, base]
    vres,         \* what the call returned for the links as they are now
    win,          \* the live window: [x, y, width, height]
    winCalls,     \* window API calls made by the last set_window_position command
    wreq,         \* the last set_window_position request
    wclamped,     \* the rectangle constrain_to_screen returned for it
    wres,         \* what that command returned
    platform,     \* target_os the probe was built for
    penv,         \* what the OS facilities answer to the probe
    pres,         \* what request_microphone_permission returned
    dbytes,       \* the bytes of the CSV file
    dres,         \* what detect_and_decode returned for them
    prows,        \* what parse_csv returned for the decoded text
    sv,           \* the save_config calls in progress, one per caller
    svLog,        \* the file system steps of those calls, in the order they happened
    rres,         \* the last read_csv call: its steps, the path it read, its result
    stWin,        \* the main window at startup, if the app has one
    stRun,        \* the setup_window call: what it loaded, the calls it made, its result
    ld            \* a load_config call made while save_config calls are in progress

vars == <<cfgPathOk, cfgDir, cfgFile, cfgPrev, cfgLast, cfgLastSave, cfgSaved,
          links, vreq, vres, win, winCalls, wreq, wclamped, wres, platform, penv, pres,
          dbytes, dres, prows, sv, svLog, rres, stWin, stRun, ld>>

cfgVars == <<cfgPathOk, cfgDir, cfgFile, cfgPrev, cfgLast, cfgLastSave, cfgSaved>>
pathVars == <<links, vreq, vres>>
winVars == <<win, winCalls, wreq, wclamped, wres>>
probeVars == <<platform, penv, pres>>
csvVars == <<dbytes, dres, prows>>
raceVars == <<sv, svLog>>
readVars == <<rres>>
startVars == <<stWin, stRun>>
loadVars == <<ld>>

-----------------------------------------------------------------------------
(* Text helpers *)

\* the sequence s repeated n times
RECURSIVE Repeat(_, _)
Repeat(s, n) == IF n <= 0 THEN <<>> ELSE s \o Repeat(s, n - 1)

\* lexicographic order on texts by code point (Ord for String)
RECURSIVE TextLess(_, _)
TextLess(a, b) ==
    IF b = <<>> THEN FALSE
    ELSE IF a = <<>> THEN TRUE
    ELSE IF a[1] # b[1] THEN a[1] < b[1]
    ELSE TextLess(Tail(a), Tail(b))

\* F applied to the value of x, x computed once
With(x, F(_)) == CHOOSE out \in {F(v) : v \in {x}} : TRUE

\* txt has the literal lit at index i
HasAt(txt, i, lit) ==
    /\ i + Len(lit) - 1 <= Len(txt)
    /\ \A j \in 1..Len(lit) : txt[i + j - 1] = lit[j]

-----------------------------------------------------------------------------
(* serde_json::Value *)

JNull == [t |-> "null"]
JBool(b) == [t |-> "bool", b |-> b]
JNum(n) == [t |-> "num", n |-> n]
JStr(s) == [t |-> "str", s |-> s]
JArr(a) == [t |-> "arr", a |-> a]
\* an object is its entries in key order (serde_json::Map is a BTreeMap)
JObj(m) == [t |-> "obj", m |-> m]

\* Map::insert: replace the entry with key k, or add it at its sorted place
RECURSIVE MapInsert(_, _, _)
MapInsert(m, k, v) ==
    IF m = <<>> THEN <<[k |-> k, v |-> v]>>
    ELSE IF m[1].k = k THEN <<[k |-> k, v |-> v]>> \o Tail(m)
    ELSE IF TextLess(k, m[1].k) THEN <<[k |-> k, v |-> v]>> \o m
    ELSE <<m[1]>> \o MapInsert(Tail(m), k, v)

\* Map::get
MapGet(m, k) ==
    IF \E i \in 1..Len(m) : m[i].k = k
    THEN (CHOOSE e \in {m[i] : i \in 1..Len(m)} : e.k = k).v
    ELSE JNull

MapHas(m, k) == \E i \in 1..Len(m) : m[i].k = k

-----------------------------------------------------------------------------
(* serde_json::to_string_pretty: PrettyFormatter with a two-space indent *)

\* itoa: decimal digits of n >= 0
RECURSIVE Digits(_)
Digits(n) == IF n < 10 THEN <<48 + n>> ELSE Digits(n \div 10) \o <<48 + (n % 10)>>

SerNum(n) == IF n < 0 THEN <<45>> \o Digits(-n) ELSE Digits(n)

\* lower-case hexadecimal digit of d in 0..15
HexDigit(d) == IF d < 10 THEN 48 + d ELSE 87 + d

\* format_escaped_str_contents, one character without its escape: the defect
\* of writing the quote and the backslash raw
EscapeCharRaw(c) == <<c>>

\* format_escaped_str_contents, one character: '"' and '\' take a backslash,
\* control characters become \b \t \n \f \r or \u00XX, the rest is written raw
EscapeChar(c) ==
    CASE c = 34 -> <<92, 34>>
      [] c = 92 -> <<92, 92>>
      [] c = 8  -> <<92, 98>>
      [] c = 9  -> <<92, 116>>
      [] c = 10 -> <<92, 110>>
      [] c = 12 -> <<92, 102>>
      [] c = 13 -> <<92, 114>>
      [] c < 32 /\ c \notin {8, 9, 10, 12, 13} ->
            <<92, 117, 48, 48, HexDigit(c \div 16), HexDigit(c % 16)>>
      [] OTHER -> <<c>>

RECURSIVE EscapeAll(_)
EscapeAll(s) == IF s = <<>> THEN <<>> ELSE EscapeChar(s[1]) \o EscapeAll(Tail(s))

SerStr(s) == <<34>> \o EscapeAll(s) \o <<34>>

Indent(n) == Repeat(<<32, 32>>, n)

RECURSIVE SerValue(_, _)
RECURSIVE SerElems(_, _, _)
RECURSIVE SerMembers(_, _, _)

\* the value v written at nesting depth ind
SerValue(v, ind) ==
    CASE v.t = "null" -> <<110, 117, 108, 108>>
      [] v.t = "bool" -> IF v.b THEN <<116, 114, 117, 101>>
                                ELSE <<102, 97, 108, 115, 101>>
      [] v.t = "num" -> SerNum(v.n)
      [] v.t = "str" -> SerStr(v.s)
      [] v.t = "arr" ->
            IF v.a = <<>> THEN <<91, 93>>
            ELSE <<91>> \o SerElems(v.a, ind + 1, 1) \o <<10>> \o Indent(ind) \o <<93>>
      [] v.t = "obj" ->
            IF v.m = <<>> THEN <<123, 125>>
            ELSE <<123>> \o SerMembers(v.m, ind + 1, 1) \o <<10>> \o Indent(ind) \o <<125>>

SerElems(a, ind, i) ==
    IF i > Len(a) THEN <<>>
    ELSE (IF i = 1 THEN <<10>> ELSE <<44, 10>>) \o Indent(ind)
         \o SerValue(a[i], ind) \o SerElems(a, ind, i + 1)

SerMembers(m, ind, i) ==
    IF i > Len(m) THEN <<>>
    ELSE (IF i = 1 THEN <<10>> ELSE <<44, 10>>) \o Indent(ind)
         \o SerStr(m[i].k) \o <<58, 32>> \o SerValue(m[i].v, ind)
         \o SerMembers(m, ind, i + 1)

ToStringPretty(v) == SerValue(v, 0)

-----------------------------------------------------------------------------
(* serde_json::from_str::<Value>.  Numbers are integers: fractions and     *)
(* exponents are outside the modelled value domain, and so are \u escapes  *)
(* of surrogate pairs.                                                     *)

PFail == [ok |-> FALSE, v |-> JNull, i |-> 0]
POk(v, i) == [ok |-> TRUE, v |-> v, i |-> i]

IsWs(c) == c \in {32, 10, 13, 9}
IsDigit(c) == c \in 48..57

RECURSIVE SkipWs(_, _)
SkipWs(txt, i) == IF i <= Len(txt) /\ IsWs(txt[i]) THEN SkipWs(txt, i + 1) ELSE i

RECURSIVE ParseDigits(_, _, _)
ParseDigits(txt, i, acc) ==
    IF i <= Len(txt) /\ IsDigit(txt[i])
    THEN ParseDigits(txt, i + 1, acc * 10 + (txt[i] - 48))
    ELSE [n |-> acc, i |-> i]

\* an optional '-', then 0 alone or a digit string without a leading zero
ParseNum(txt, i) ==
    LET neg == txt[i] = 45
        j == IF neg THEN i + 1 ELSE i
    IN  IF j > Len(txt) \/ ~IsDigit(txt[j]) THEN PFail
        ELSE IF txt[j] = 48
             THEN IF j + 1 <= Len(txt) /\ IsDigit(txt[j + 1]) THEN PFail
                  ELSE POk(JNum(0), j + 1)
             ELSE LET r == ParseDigits(txt, j, 0)
                  IN  POk(JNum(IF neg THEN -r.n ELSE r.n), r.i)

HexVal(c) ==
    IF c \in 48..57 THEN c - 48
    ELSE IF c \in 97..102 THEN c - 87
    ELSE IF c \in 65..70 THEN c - 55
    ELSE -1

\* the characters of a string literal from index i (after the opening quote)
\* up to its closing quote
RECURSIVE ParseStr(_, _, _)
ParseStr(txt, i, acc) ==
    IF i > Len(txt) THEN PFail
    ELSE LET c == txt[i] IN
         IF c = 34 THEN POk(acc, i + 1)
         ELSE IF c = 92 THEN
              IF i + 1 > Len(txt) THEN PFail
              ELSE LET e == txt[i + 1] IN
                   CASE e \in {34, 92, 47} -> ParseStr(txt, i + 2, Append(acc, e))
                     [] e = 98  -> ParseStr(txt, i + 2, Append(acc, 8))
                     [] e = 102 -> ParseStr(txt, i + 2, Append(acc, 12))
                     [] e = 110 -> ParseStr(txt, i + 2, Append(acc, 10))
                     [] e = 114 -> ParseStr(txt, i + 2, Append(acc, 13))
                     [] e = 116 -> ParseStr(txt, i + 2, Append(acc, 9))
                     [] e = 117 ->
                          IF i + 5 <= Len(txt)
                             /\ \A k \in 2..5 : HexVal(txt[i + k]) >= 0
                          THEN ParseStr(txt, i + 6, Append(acc,
                                   HexVal(txt[i + 2]) * 4096 + HexVal(txt[i + 3]) * 256
                                   + HexVal(txt[i + 4]) * 16 + HexVal(txt[i + 5])))
                          ELSE PFail
                     [] OTHER -> PFail
         ELSE IF c < 32 THEN PFail
         ELSE ParseStr(txt, i + 1, Append(acc, c))

RECURSIVE ParseValue(_, _)
RECURSIVE ParseElems(_, _, _)
RECURSIVE ParseMembers(_, _, _)

ParseValue(txt, i0) ==
    With(SkipWs(txt, i0), LAMBDA i :
    IF i > Len(txt) THEN PFail
    ELSE With(txt[i], LAMBDA c :
         CASE c = 110 -> IF HasAt(txt, i, <<110, 117, 108, 108>>)
                         THEN POk(JNull, i + 4) ELSE PFail
           [] c = 116 -> IF HasAt(txt, i, <<116, 114, 117, 101>>)
                         THEN POk(JBool(TRUE), i + 4) ELSE PFail
           [] c = 102 -> IF HasAt(txt, i, <<102, 97, 108, 115, 101>>)
                         THEN POk(JBool(FALSE), i + 5) ELSE PFail
           [] c = 34 -> With(ParseStr(txt, i + 1, <<>>), LAMBDA r :
                            IF r.ok THEN POk(JStr(r.v), r.i) ELSE PFail)
           [] c = 91 -> With(SkipWs(txt, i + 1), LAMBDA j :
                            IF j <= Len(txt) /\ txt[j] = 93
                            THEN POk(JArr(<<>>), j + 1)
                            ELSE ParseElems(txt, j, <<>>))
           [] c = 123 -> With(SkipWs(txt, i + 1), LAMBDA j :
                             IF j <= Len(txt) /\ txt[j] = 125
                             THEN POk(JObj(<<>>), j + 1)
                             ELSE ParseMembers(txt, j, <<>>))
           [] c = 45 \/ IsDigit(c) -> ParseNum(txt, i)
           [] OTHER -> PFail))

\* the elements of an array from index i: value, then ',' or ']'
ParseElems(txt, i, acc) ==
    With(ParseValue(txt, i), LAMBDA r :
    IF ~r.ok THEN PFail
    ELSE With(SkipWs(txt, r.i), LAMBDA j :
         IF j > Len(txt) THEN PFail
         ELSE IF txt[j] = 44 THEN ParseElems(txt, j + 1, Append(acc, r.v))
         ELSE IF txt[j] = 93 THEN POk(JArr(Append(acc, r.v)), j + 1)
         ELSE PFail))

\* the members of an object from index i: "key" ':' value, then ',' or '}';
\* a repeated key keeps its last value
ParseMembers(txt, i, acc) ==
    With(SkipWs(txt, i), LAMBDA j :
    IF j > Len(txt) \/ txt[j] # 34 THEN PFail
    ELSE With(ParseStr(txt, j + 1, <<>>), LAMBDA key :
         IF ~key.ok THEN PFail
         ELSE With(SkipWs(txt, key.i), LAMBDA k :
              IF k > Len(txt) \/ txt[k] # 58 THEN PFail
              ELSE With(ParseValue(txt, k + 1), LAMBDA val :
                   IF ~val.ok THEN PFail
                   ELSE With(SkipWs(txt, val.i), LAMBDA l :
                        IF l > Len(txt) THEN PFail
                        ELSE IF txt[l] = 44
                             THEN ParseMembers(txt, l + 1, MapInsert(acc, key.v, val.v))
                        ELSE IF txt[l] = 125
                             THEN POk(JObj(MapInsert(acc, key.v, val.v)), l + 1)
                        ELSE PFail)))))

\* from_str: one value, then nothing but whitespace
FromStr(txt) ==
    With(ParseValue(txt, 1), LAMBDA r :
    IF ~r.ok THEN PFail
    ELSE IF SkipWs(txt, r.i) <= Len(txt) THEN PFail
    ELSE r)

-----------------------------------------------------------------------------
(* errors.rs: the error codes, and the three ways a call can end *)

FILE_NOT_FOUND == "FILE_NOT_FOUND"
FILE_PERMISSION_DENIED == "FILE_PERMISSION_DENIED"
INVALID_FILE_FORMAT == "INVALID_FILE_FORMAT"
ENCODING_ERROR == "ENCODING_ERROR"
FILE_IO_ERROR == "FILE_IO_ERROR"
INVALID_WINDOW_POSITION == "INVALID_WINDOW_POSITION"
UNKNOWN_ERROR == "UNKNOWN_ERROR"

\* Ok(v), Err(BackendError { code, .. }), or a panic unwinding out of the call
Ok(v) == [kind |-> "ok", v |-> v, code |-> ""]
Err(code) == [kind |-> "err", v |-> JNull, code |-> code]
Panicked == [kind |-> "panic", v |-> JNull, code |-> ""]
NoResult == [kind |-> "none", v |-> JNull, code |-> ""]

-----------------------------------------------------------------------------
(* ConfigStore: file_ops.rs save_config / load_config *)

Absent == [exists |-> FALSE, readable |-> FALSE, writable |-> FALSE, text |-> <<>>]
FileOf(text, r, w) == [exists |-> TRUE, readable |-> r, writable |-> w, text |-> text]

\* get_config_path: the data directory comes from the environment
\* (APPDATA / HOME / XDG_CONFIG_HOME); without it the call fails
GetConfigPath(pathOk) == IF pathOk THEN Ok(JNull) ELSE Err(UNKNOWN_ERROR)

\* "Load existing config or create new" with the existing document dropped:
\* the defect of starting every save from an empty document
ExistingConfigFresh(file) == Ok(JObj(<<>>))

\* "Load existing config or create new": the parsed file, an empty object when
\* the file is missing or does not parse, an error when it cannot be read
ExistingConfig(file) ==
    IF file.exists
    THEN IF ~file.readable THEN Err(FILE_IO_ERROR)
         ELSE LET r == FromStr(file.text)
              IN  Ok(IF r.ok THEN r.v ELSE JObj(<<>>))
    ELSE Ok(JObj(<<>>))

\* config[key] = value (IndexMut<&str> for Value): Null becomes an object, an
\* object gets the entry, any other value panics
IndexSet(config, key, value) ==
    CASE config.t = "null" -> Ok(JObj(MapInsert(<<>>, key, value)))
      [] config.t = "obj" -> Ok(JObj(MapInsert(config.m, key, value)))
      [] OTHER -> Panicked

\* Value::get(&str): the entry of an object, None for every other value
ValueGet(config, key) ==
    IF config.t = "obj" /\ MapHas(config.m, key)
    THEN [some |-> TRUE, v |-> MapGet(config.m, key)]
    ELSE [some |-> FALSE, v |-> JNull]

\* fs::write can create or overwrite the file
CanWrite(dir, file) == IF file.exists THEN file.writable ELSE dir = "exists"

\* save_config(key, value): the result and the directory and file it leaves
SaveConfig(pathOk, dir, file, key, value) ==
    IF GetConfigPath(pathOk).kind # "ok"
    THEN [res |-> GetConfigPath(pathOk), dir |-> dir, file |-> file]
    ELSE IF dir = "uncreatable"
    THEN [res |-> Err(FILE_IO_ERROR), dir |-> dir, file |-> file]
    ELSE LET dir1 == IF dir = "missing" THEN "exists" ELSE dir
             old == ExistingConfig(file)
         IN  IF old.kind # "ok" THEN [res |-> old, dir |-> dir1, file |-> file]
             ELSE LET upd == IndexSet(old.v, key, value) IN
                  IF upd.kind # "ok" THEN [res |-> upd, dir |-> dir1, file |-> file]
                  ELSE IF ~CanWrite(dir1, file)
                  THEN [res |-> Err(FILE_IO_ERROR), dir |-> dir1, file |-> file]
                  ELSE [res |-> Ok(JNull), dir |-> dir1,
                        file |-> FileOf(ToStringPretty(upd.v), TRUE, TRUE)]

\* load_config with a missing file reported as an error: the defect of
\* treating absence as FILE_NOT_FOUND
LoadConfigStrict(pathOk, file, key) ==
    IF GetConfigPath(pathOk).kind # "ok" THEN GetConfigPath(pathOk)
    ELSE IF ~file.exists THEN Err(FILE_NOT_FOUND)
    ELSE IF ~file.readable THEN Err(FILE_IO_ERROR)
    ELSE LET r == FromStr(file.text) IN
         IF ~r.ok THEN Err(INVALID_FILE_FORMAT)
         ELSE Ok(ValueGet(r.v, key).v)

\* load_config(key)
LoadConfig(pathOk, file, key) ==
    IF GetConfigPath(pathOk).kind # "ok" THEN GetConfigPath(pathOk)
    ELSE IF ~file.exists THEN Ok(JNull)
    ELSE IF ~file.readable THEN Err(FILE_IO_ERROR)
    ELSE LET r == FromStr(file.text) IN
         IF ~r.ok THEN Err(INVALID_FILE_FORMAT)
         ELSE Ok(ValueGet(r.v, key).v)

\* keys and values the callers pass
KeyTheme == <<116, 104, 101, 109, 101>>                       \* "theme"
KeyWindow == <<119, 105, 110, 100, 111, 119, 95, 99, 111, 110, 102, 105, 103>>
                                                              \* "window_config"
KeyZoom == <<122, 111, 111, 109>>                             \* "zoom"
SaveKeys == {KeyTheme, KeyWindow}
AllKeys == SaveKeys \cup {KeyZoom}

TextEnergy == <<69, 110, 101, 114, 103, 121>>                 \* "Energy"
TextDark == <<68, 97, 114, 107>>                              \* "Dark"
TextOverlay == <<111, 118, 101, 114, 108, 97, 121>>           \* "overlay"
TextQuoted == <<97, 34, 92, 10, 1, 125>>         \* a " \ newline U+0001 }
Values ==
    { JStr(TextEnergy), JStr(TextQuoted), JNull, JNum(-12),
      JObj(<<[k |-> KeyZoom, v |-> JArr(<<JNum(0), JBool(FALSE), JStr(TextOverlay)>>)]>>) }

\* documents the config file may hold before the first call
DocDarkZoom == JObj(MapInsert(MapInsert(<<>>, KeyTheme, JStr(TextDark)), KeyZoom, JNum(2)))
TextDarkZoom == ToStringPretty(DocDarkZoom)
InitialTexts ==
    { <<>>,                                       \* empty file
      <<123, 125>>,                               \* {}
      <<110, 117, 108, 108>>,                     \* null
      <<91, 49, 93>>,                             \* [1]
      <<55>>,                                     \* 7
      TextDarkZoom,
      SubSeq(TextDarkZoom, 1, Len(TextDarkZoom) - 2),   \* cut short: no closing brace
      \* {"theme":1,"theme":"Dark"} with a repeated key, written compactly
      <<123>> \o SerStr(KeyTheme) \o <<58, 49, 44>> \o SerStr(KeyTheme)
          \o <<58>> \o SerStr(TextDark) \o <<125, 10>> }

InitialFiles ==
    {FileOf(t, TRUE, TRUE) : t \in InitialTexts}
    \cup {FileOf(TextDarkZoom, FALSE, TRUE), FileOf(TextDarkZoom, TRUE, FALSE)}

NoCall == [op |-> "none", key |-> <<>>, val |-> JNull, res |-> NoResult]
NoSave == [ok |-> FALSE, key |-> <<>>, val |-> JNull]

\* state of the config store before the first call; without a resolvable
\* path there is no config file to speak of
CfgInit ==
    /\ cfgPathOk \in BOOLEAN
    /\ \/ cfgDir \in {"missing", "uncreatable", "exists", "readonly"} /\ cfgFile = Absent
       \/ cfgDir \in {"exists", "readonly"} /\ cfgFile \in InitialFiles
    /\ ~cfgPathOk => cfgFile = Absent
    /\ cfgPrev = cfgFile
    /\ cfgLast = NoCall
    /\ cfgLastSave = NoSave
    /\ cfgSaved = {}

CfgIdle ==
    /\ cfgPathOk = TRUE /\ cfgDir = "missing" /\ cfgFile = Absent
    /\ cfgPrev = Absent /\ cfgLast = NoCall /\ cfgLastSave = NoSave /\ cfgSaved = {}

\* the command save_config(key, value)
Save ==
    \E key \in SaveKeys, value \in Values :
        \E r \in {SaveConfig(cfgPathOk, cfgDir, cfgFile, key, value)} :
        /\ cfgDir' = r.dir
        /\ cfgFile' = r.file
        /\ cfgPrev' = cfgFile
        /\ cfgLast' = [op |-> "save", key |-> key, val |-> value, res |-> r.res]
        /\ cfgLastSave' = [ok |-> r.res.kind = "ok", key |-> key,
                            val |-> IF r.res.kind = "ok" THEN value ELSE JNull]
        /\ cfgSaved' = IF r.res.kind = "ok"
                       THEN {e \in cfgSaved : e.k # key} \cup {[k |-> key, v |-> value]}
                       ELSE cfgSaved
        /\ UNCHANGED cfgPathOk

\* the command load_config(key)
Load ==
    \E key \in AllKeys :
        /\ cfgLast' = [op |-> "load", key |-> key, val |-> JNull,
                       res |-> LoadConfig(cfgPathOk, cfgFile, key)]
        /\ cfgPrev' = cfgFile
        /\ UNCHANGED <<cfgPathOk, cfgDir, cfgFile, cfgLastSave, cfgSaved>>

-----------------------------------------------------------------------------
(* The file system seen by validate_csv_path.  A path is [abs, comps]: the *)
(* components of an absolute path, or of one relative to the working       *)
(* directory.  Canonical paths are absolute and are written as their       *)
(* component sequence alone.                                               *)

NDot == <<46>>                                  \* "."
NDotDot == <<46, 46>>                           \* ".."
NCfg == <<99, 102, 103>>                        \* "cfg"
NCfgx == <<99, 102, 103, 120>>                  \* "cfgx"
NOut == <<111, 117, 116>>                       \* "out"
NSub == <<115, 117, 98>>                        \* "sub"
NLn == <<108, 110>>                             \* "ln"
ND == <<100>>                                   \* "d"
NACsv == <<97, 46, 99, 115, 118>>               \* "a.csv"
NLCsv == <<108, 46, 99, 115, 118>>              \* "l.csv"
NBCSV == <<66, 46, 67, 83, 86>>                 \* "B.CSV"
NNTxt == <<110, 46, 116, 120, 116>>             \* "n.txt"
NDotCsv == <<46, 99, 115, 118>>                 \* ".csv"
NCsv == <<99, 115, 118>>                        \* "csv"
NACsvX == <<97, 46, 99, 115, 118, 120>>         \* "a.csvx"
NATarCsv == <<97, 46, 116, 46, 67, 115, 86>>    \* "a.t.CsV"
NATrail == <<97, 46>>                           \* "a."

\* how many directories named d are nested below /cfg
MaxNest == 8
\* symbolic links followed before canonicalize gives up (ELOOP)
MaxHops == 3
\* longest generated input path, in components
MaxComps == 3

Abs(comps) == [abs |-> TRUE, comps |-> comps]
Rel(comps) == [abs |-> FALSE, comps |-> comps]

\* /cfg/d/d/.../d with k components d
Nested(k) == <<NCfg>> \o Repeat(<<ND>>, k)

StaticDirs ==
    {<<>>, <<NCfg>>, <<NCfg, NSub>>, <<NOut>>, <<NCfgx>>}
    \cup {Nested(k) : k \in 1..MaxNest}

StaticFiles ==
    { <<NCfg, NACsv>>, <<NCfg, NBCSV>>, <<NCfg, NNTxt>>, <<NCfg, NDotCsv>>,
      <<NCfg, NCsv>>, <<NCfg, NATarCsv>>, <<NCfg, NSub, NACsv>>,
      <<NOut, NACsv>>, <<NCfgx, NACsv>> }
    \cup {Append(Nested(k), NACsv) : k \in 1..MaxNest}

\* symbolic links that may be created: at |-> where the link is, to |-> its target
CandidateLinks ==
    { [at |-> <<NCfg, NLCsv>>, to |-> <<NOut, NACsv>>],       \* file link leaving /cfg
      [at |-> <<NCfg, NLn>>, to |-> <<NOut>>],                \* directory link leaving /cfg
      [at |-> <<NOut, NLCsv>>, to |-> <<NCfg, NACsv>>],       \* file link entering /cfg
      [at |-> <<NCfg, NSub, NLCsv>>, to |-> <<NCfg, NSub, NLCsv>>] }   \* link to itself

\* the working directory of the process
Cwd == <<NCfg>>

NodeKind(ls, p) ==
    IF p \in StaticDirs THEN "dir"
    ELSE IF p \in StaticFiles THEN "file"
    ELSE IF \E l \in ls : l.at = p THEN "link"
    ELSE "none"

LinkTarget(ls, p) == (CHOOSE l \in ls : l.at = p).to

CanonFail == [ok |-> FALSE, path |-> <<>>]

\* realpath: walk the components from the canonical directory cur, following
\* links; fails on a missing entry, on a non-directory in the middle, and
\* after MaxHops links
RECURSIVE Resolve(_, _, _, _)
Resolve(ls, cur, rest, hops) ==
    IF rest = <<>> THEN [ok |-> TRUE, path |-> cur]
    ELSE IF NodeKind(ls, cur) # "dir" THEN CanonFail
    ELSE LET c == Head(rest) IN
         IF c = NDot THEN Resolve(ls, cur, Tail(rest), hops)
         ELSE IF c = NDotDot
         THEN Resolve(ls, IF cur = <<>> THEN <<>> ELSE SubSeq(cur, 1, Len(cur) - 1),
                      Tail(rest), hops)
         ELSE LET p == Append(cur, c)
                  k == NodeKind(ls, p)
              IN  IF k = "none" THEN CanonFail
                  ELSE IF k = "link"
                  THEN IF hops = 0 THEN CanonFail
                       ELSE Resolve(ls, <<>>, LinkTarget(ls, p) \o Tail(rest), hops - 1)
                  ELSE Resolve(ls, p, Tail(rest), hops)

\* Path::canonicalize
Canonicalize(ls, path) ==
    Resolve(ls, IF path.abs THEN <<>> ELSE Cwd, path.comps, MaxHops)

\* Path::components().count() of a canonical path: the root and each name
ComponentCount(canon) == 1 + Len(canon)

\* Path::starts_with compared as strings instead of component by component:
\* the defect of a textual prefix test
RECURSIVE JoinPath(_)
JoinPath(p) == IF p = <<>> THEN <<>> ELSE <<47>> \o p[1] \o JoinPath(Tail(p))

StartsWithText(p, base) ==
    /\ Len(JoinPath(base)) <= Len(JoinPath(p))
    /\ SubSeq(JoinPath(p), 1, Len(JoinPath(base))) = JoinPath(base)

\* Path::starts_with: base is a prefix of p, whole components only
StartsWith(p, base) ==
    /\ Len(base) <= Len(p)
    /\ SubSeq(p, 1, Len(base)) = base

\* Path::file_name: the last component unless it is "..", with "." components
\* normalised away
FileName(path) ==
    LET n == SelectSeq(path.comps, LAMBDA c : c # NDot) IN
    IF n = <<>> \/ n[Len(n)] = NDotDot THEN [some |-> FALSE, v |-> <<>>]
    ELSE [some |-> TRUE, v |-> n[Len(n)]]

\* Path::extension: what follows the last '.' of the file name, unless the
\* name has no '.' or only a leading one
Extension(path) ==
    LET f == FileName(path) IN
    IF ~f.some THEN [some |-> FALSE, v |-> <<>>]
    ELSE LET dots == {i \in 1..Len(f.v) : f.v[i] = 46} IN
         IF dots = {} THEN [some |-> FALSE, v |-> <<>>]
         ELSE LET last == CHOOSE i \in dots : \A j \in dots : j <= i IN
              IF last = 1 THEN [some |-> FALSE, v |-> <<>>]
              ELSE [some |-> TRUE, v |-> SubSeq(f.v, last + 1, Len(f.v))]

\* to_lowercase left out: the defect of comparing the extension case-sensitively
ToLowercaseNone(s) == s

\* str::to_lowercase on the letters A-Z
ToLowercase(s) == [i \in 1..Len(s) |-> IF s[i] \in 65..90 THEN s[i] + 32 ELSE s[i]]

MAX_PATH_DEPTH == 10

VOk(p) == [kind |-> "ok", code |-> "", path |-> p]
VErr(code) == [kind |-> "err", code |-> code, path |-> <<>>]

\* validate_csv_path with the path resolved before the extension is looked
\* at: the defect of checking the extension second
ValidateCsvPathLate(ls, path, base) ==
    LET cp == Canonicalize(ls, path)
        cb == Canonicalize(ls, base)
        ext == Extension(path)
    IN  IF ~cp.ok THEN VErr(FILE_PERMISSION_DENIED)
        ELSE IF ~(ext.some /\ ToLowercase(ext.v) = NCsv) THEN VErr(INVALID_FILE_FORMAT)
        ELSE IF ComponentCount(cp.path) > MAX_PATH_DEPTH THEN VErr(FILE_PERMISSION_DENIED)
        ELSE IF ~cb.ok THEN VErr(UNKNOWN_ERROR)
        ELSE IF ~StartsWith(cp.path, cb.path) THEN VErr(FILE_PERMISSION_DENIED)
        ELSE VOk(cp.path)

\* validate_csv_path with the allowed root resolved before the path: the
\* defect of reporting a bad root ahead of a bad path
ValidateCsvPathRootFirst(ls, path, base) ==
    LET ext == Extension(path) IN
    IF ~(ext.some /\ ToLowercase(ext.v) = NCsv) THEN VErr(INVALID_FILE_FORMAT)
    ELSE LET cb == Canonicalize(ls, base)
             cp == Canonicalize(ls, path)
         IN  IF ~cb.ok THEN VErr(UNKNOWN_ERROR)
             ELSE IF ~cp.ok THEN VErr(FILE_PERMISSION_DENIED)
             ELSE IF ComponentCount(cp.path) > MAX_PATH_DEPTH
             THEN VErr(FILE_PERMISSION_DENIED)
             ELSE IF ~StartsWith(cp.path, cb.path) THEN VErr(FILE_PERMISSION_DENIED)
             ELSE VOk(cp.path)

\* validate_csv_path(path, allowed_base)
ValidateCsvPath(ls, path, base) ==
    LET ext == Extension(path) IN
    IF ~(ext.some /\ ToLowercase(ext.v) = NCsv) THEN VErr(INVALID_FILE_FORMAT)
    ELSE LET cp == Canonicalize(ls, path) IN
         IF ~cp.ok THEN VErr(FILE_PERMISSION_DENIED)
         ELSE IF ComponentCount(cp.path) > MAX_PATH_DEPTH THEN VErr(FILE_PERMISSION_DENIED)
         ELSE LET cb == Canonicalize(ls, base) IN
              IF ~cb.ok THEN VErr(UNKNOWN_ERROR)
              ELSE IF ~StartsWith(cp.path, cb.path) THEN VErr(FILE_PERMISSION_DENIED)
              ELSE VOk(cp.path)

\* the sequences over S of length 1..n
RECURSIVE SeqsUpTo(_, _)
SeqsUpTo(S, n) ==
    IF n = 0 THEN {}
    ELSE LET shorter == SeqsUpTo(S, n - 1) IN
         {<<x>> : x \in S} \cup shorter \cup {Append(q, x) : q \in shorter, x \in S}

GeneratedNames == {NDotDot, NCfg, NOut, NSub, NLn, NACsv, NLCsv}

\* the paths the caller passes: every short path over the generated names,
\* names that try the extension rule, and the files of the nested directories
PathInputs ==
    {Abs(c) : c \in SeqsUpTo(GeneratedNames, MaxComps)}
    \cup {Rel(c) : c \in SeqsUpTo(GeneratedNames, MaxComps)}
    \cup {Rel(<<n>>) : n \in {NBCSV, NNTxt, NDotCsv, NCsv, NACsvX, NATarCsv, NATrail, NDot}}
    \cup {Rel(<<NACsv, NDot>>), Rel(<<NDot, NACsv>>), Rel(<<NSub, NDotDot, NBCSV>>),
          Abs(<<NCfgx, NACsv>>), Abs(<<NCfg, NNTxt>>), Abs(<<NOut, NNTxt>>)}
    \cup {Abs(Append(Nested(k), NACsv)) : k \in 1..MaxNest}

\* the allowed roots the caller passes
BaseInputs == {Abs(<<NCfg>>), Abs(<<NCfg, NLn>>), Abs(<<NCfg, NSub>>)}

VNone == [kind |-> "none", code |-> "", path |-> <<>>]

\* the caller's arguments are any path and allowed root; no call made yet
PathInit ==
    /\ links = {}
    /\ vreq \in [path : PathInputs, base : BaseInputs]
    /\ vres = VNone

PathIdle ==
    links = {} /\ vreq = [path |-> Rel(<<NACsv>>), base |-> Abs(<<NCfg>>)] /\ vres = VNone

\* the environment creates or removes a symbolic link; a result obtained
\* before speaks of the file system as it was, and is dropped
Symlink ==
    \E l \in CandidateLinks \ links :
        links' = links \cup {l} /\ vres' = VNone /\ UNCHANGED vreq

Unlink ==
    \E l \in links :
        links' = links \ {l} /\ vres' = VNone /\ UNCHANGED vreq

\* a call of validate_csv_path(path, allowed_base)
Validate ==
    /\ vres' = ValidateCsvPath(links, vreq.path, vreq.base)
    /\ UNCHANGED <<links, vreq>>

-----------------------------------------------------------------------------
(* WindowGeometryManager: window.rs and the set_window_position command *)

\* the range of the i32 fields x and y; width and height are u32, sampled here
\* up to the largest integer the model checker evaluates
I32_MAX == 2147483647
I32_MIN == -I32_MAX - 1

Max(a, b) == IF a >= b THEN a ELSE b

Rect(x, y, w, h) == [x |-> x, y |-> y, width |-> w, height |-> h]

\* constrain_to_screen without the height floor: the defect of a forgotten field
ConstrainNoHeight(position) ==
    Rect(Max(position.x, 0), Max(position.y, 0), Max(position.width, 400),
         position.height)

\* constrain_to_screen that moves a window left of the screen one step to the
\* right instead of flooring x: the defect of nudging rather than clamping
ConstrainNudge(position) ==
    Rect(IF position.x < 0 THEN position.x + 100 ELSE position.x,
         Max(position.y, 0), Max(position.width, 400), Max(position.height, 300))

\* constrain_to_screen(position)
constrain_to_screen(position) ==
    Rect(Max(position.x, 0), Max(position.y, 0),
         Max(position.width, 400), Max(position.height, 300))

\* window::set_window_position: set_position, then set_size; fail names the
\* window API call that fails, if any.  The i32 / u32 fields are passed as
\* f64, which holds every 32-bit integer exactly.
WindowSetPosition(w, position, fail) ==
    IF fail = "position"
    THEN [win |-> w, calls |-> <<"set_position">>, res |-> Err(INVALID_WINDOW_POSITION)]
    ELSE LET moved == Rect(position.x, position.y, w.width, w.height) IN
         IF fail = "size"
         THEN [win |-> moved, calls |-> <<"set_position", "set_size">>,
               res |-> Err(INVALID_WINDOW_POSITION)]
         ELSE [win |-> Rect(position.x, position.y, position.width, position.height),
               calls |-> <<"set_position", "set_size">>, res |-> Ok(JNull)]

\* the command without the clamp: the defect of applying the request as given
SetWindowPositionRaw(w, position, fail) ==
    WindowSetPosition(w, position, fail) @@ [constrained |-> position]

\* commands::set_window_position(position, window)
SetWindowPosition(w, position, fail) ==
    LET constrained == constrain_to_screen(position) IN
    WindowSetPosition(w, constrained, fail) @@ [constrained |-> constrained]

\* the rectangles the front end asks for
Requests ==
    { Rect(x, y, w, h) : x \in {I32_MIN, -100, 0, 100}, y \in {-50, 0, I32_MAX},
                         w \in {0, 200, 400, I32_MAX}, h \in {150, 300} }

\* the window before the first command: as set up, or as the user left it
InitialWindows == {Rect(100, 100, 400, 600), Rect(-20, 10, 320, 200)}

WinInit ==
    /\ win \in InitialWindows
    /\ winCalls = <<>>
    /\ wreq = Rect(0, 0, 0, 0)
    /\ wclamped = Rect(0, 0, 0, 0)
    /\ wres = NoResult

WinIdle ==
    /\ win = Rect(100, 100, 400, 600) /\ winCalls = <<>> /\ wreq = Rect(0, 0, 0, 0)
    /\ wclamped = Rect(0, 0, 0, 0) /\ wres = NoResult

\* a call of the set_window_position command
SetPosition ==
    \E position \in Requests, fail \in {"none", "position", "size"} :
        \E r \in {SetWindowPosition(win, position, fail)} :
        /\ wreq' = position
        /\ wclamped' = r.constrained
        /\ win' = r.win
        /\ winCalls' = r.calls
        /\ wres' = r.res

-----------------------------------------------------------------------------
(* PermissionProbe: permissions.rs *)

\* most capture devices the audio subsystem reports
MaxDevices == 2

Status(granted, available, message, details) ==
    [kind |-> "ok", granted |-> granted, available |-> available,
     message |-> message, details |-> details]
NoDetails == [some |-> FALSE, v |-> ""]
Details(e) == [some |-> TRUE, v |-> e]
ProbeErr(code) ==
    [kind |-> "err", granted |-> FALSE, available |-> FALSE,
     message |-> code, details |-> NoDetails]
NoStatus ==
    [kind |-> "none", granted |-> FALSE, available |-> FALSE,
     message |-> "", details |-> NoDetails]

\* str::contains
Contains(txt, pat) == \E i \in 1..(Len(txt) - Len(pat) + 1) : HasAt(txt, i, pat)

\* str::trim on the ASCII white space
RECURSIVE TrimStart(_)
TrimStart(s) == IF s # <<>> /\ IsWs(s[1]) THEN TrimStart(Tail(s)) ELSE s
RECURSIVE TrimEnd(_)
TrimEnd(s) ==
    IF s # <<>> /\ IsWs(s[Len(s)]) THEN TrimEnd(SubSeq(s, 1, Len(s) - 1)) ELSE s
Trim(s) == TrimEnd(TrimStart(s))

\* str::parse::<usize>().unwrap_or(0): an optional '+' and decimal digits
ParseUsizeOr0(s) ==
    LET d == IF s # <<>> /\ s[1] = 43 THEN Tail(s) ELSE s IN
    IF d # <<>> /\ \A i \in 1..Len(d) : IsDigit(d[i])
    THEN ParseDigits(d, 1, 0).n
    ELSE 0

\* check_windows_audio_devices: COM calls in order; a failed CoInitializeEx is
\* ignored, any later failure is Err
CheckWindowsAudioDevices(env) ==
    IF ~env.createOk THEN [ok |-> FALSE, available |-> FALSE, granted |-> FALSE,
                           e |-> "Failed to create device enumerator"]
    ELSE IF ~env.enumOk THEN [ok |-> FALSE, available |-> FALSE, granted |-> FALSE,
                              e |-> "Failed to enumerate audio endpoints"]
    ELSE IF ~env.countOk THEN [ok |-> FALSE, available |-> FALSE, granted |-> FALSE,
                               e |-> "Failed to get device count"]
    ELSE [ok |-> TRUE, available |-> env.count > 0, granted |-> env.count > 0, e |-> ""]

\* request_microphone_permission_windows with the error of check_windows_audio_devices passed on:
\* the defect of propagating it with `?`
RequestWindowsPropagating(env) ==
    LET c == CheckWindowsAudioDevices(env) IN
    IF c.ok
    THEN Status(c.granted, c.available,
                IF c.available
                THEN IF c.granted THEN "Microphone available and permission granted"
                     ELSE "Microphone available (permission status unknown)"
                ELSE "No microphone devices detected", NoDetails)
    ELSE ProbeErr("PERMISSION_ERROR")

\* request_microphone_permission_windows
RequestWindows(env) ==
    LET c == CheckWindowsAudioDevices(env) IN
    IF c.ok
    THEN Status(c.granted, c.available,
                IF c.available
                THEN IF c.granted THEN "Microphone available and permission granted"
                     ELSE "Microphone available (permission status unknown)"
                ELSE "No microphone devices detected", NoDetails)
    ELSE Status(FALSE, FALSE, "Could not determine microphone status", Details(c.e))

\* check_macos_microphone_permission with the consent check best-effort: the
\* defect of keeping the device count when the second shell cannot be started
CheckMacosBestEffort(env) ==
    IF ~env.profiler.run
    THEN [ok |-> FALSE, available |-> FALSE, granted |-> FALSE,
          e |-> "Failed to check audio devices"]
    ELSE IF env.profiler.success
    THEN [ok |-> TRUE,
          available |-> ParseUsizeOr0(Trim(env.profiler.out)) > 0,
          granted |-> env.consent.run /\ ParseUsizeOr0(Trim(env.consent.out)) > 0,
          e |-> ""]
    ELSE [ok |-> TRUE, available |-> TRUE, granted |-> FALSE, e |-> ""]

\* check_macos_microphone_permission: the device count from system_profiler,
\* then the consent records; the second utility's exit status is not read
CheckMacosMicrophonePermission(env) ==
    IF ~env.profiler.run
    THEN [ok |-> FALSE, available |-> FALSE, granted |-> FALSE,
          e |-> "Failed to check audio devices"]
    ELSE IF env.profiler.success
    THEN IF ~env.consent.run
         THEN [ok |-> FALSE, available |-> FALSE, granted |-> FALSE,
               e |-> "Failed to check permission"]
         ELSE [ok |-> TRUE,
               available |-> ParseUsizeOr0(Trim(env.profiler.out)) > 0,
               granted |-> ParseUsizeOr0(Trim(env.consent.out)) > 0, e |-> ""]
    ELSE [ok |-> TRUE, available |-> TRUE, granted |-> FALSE, e |-> ""]

\* request_microphone_permission_macos with the reason left out of the status:
\* the defect of answering a failed check without details
RequestMacosSilent(env) ==
    LET c == CheckMacosMicrophonePermission(env) IN
    IF c.ok
    THEN Status(c.granted, c.available,
                IF c.available
                THEN IF c.granted THEN "Microphone available and permission granted"
                     ELSE "Microphone available but permission denied"
                ELSE "No microphone devices detected", NoDetails)
    ELSE Status(FALSE, FALSE, "Could not determine microphone status", NoDetails)

\* request_microphone_permission_macos
RequestMacos(env) ==
    LET c == CheckMacosMicrophonePermission(env) IN
    IF c.ok
    THEN Status(c.granted, c.available,
                IF c.available
                THEN IF c.granted THEN "Microphone available and permission granted"
                     ELSE "Microphone available but permission denied"
                ELSE "No microphone devices detected", NoDetails)
    ELSE Status(FALSE, FALSE, "Could not determine microphone status", Details(c.e))

TextMicrophone == <<77, 105, 99, 114, 111, 112, 104, 111, 110, 101>>   \* "Microphone"
TextAudioSource == <<65, 117, 100, 105, 111, 47, 83, 111, 117, 114, 99, 101>>
                                                                      \* "Audio/Source"

\* Command::output().ok().and_then(..): None unless the tool ran and exited
\* successfully, else Some(found)
ToolAnswer(t, found) ==
    IF t.run /\ t.success THEN [some |-> TRUE, v |-> found] ELSE [some |-> FALSE, v |-> FALSE]

\* check_linux_audio_devices: wpctl, then arecord, then pactl
CheckLinuxAudioDevices(env) ==
    LET pw == ToolAnswer(env.wpctl, Contains(env.wpctl.out, TextMicrophone)
                                    \/ Contains(env.wpctl.out, TextAudioSource))
        alsa == ToolAnswer(env.arecord, env.arecord.out # <<>>)
        pulse == ToolAnswer(env.pactl, env.pactl.out # <<>>)
    IN  IF pw.some THEN [ok |-> TRUE, available |-> pw.v]
        ELSE IF alsa.some THEN [ok |-> TRUE, available |-> alsa.v]
        ELSE [ok |-> TRUE, available |-> IF pulse.some THEN pulse.v ELSE FALSE]

\* request_microphone_permission_linux answering granted whatever was found:
\* the defect of treating "no permission needed" as "granted"
RequestLinuxGranted(env) ==
    LET c == CheckLinuxAudioDevices(env) IN
    IF c.ok
    THEN Status(TRUE, c.available,
                IF c.available THEN "Microphone available"
                ELSE "No microphone devices detected", NoDetails)
    ELSE Status(FALSE, FALSE, "Could not determine microphone status", Details(""))

\* request_microphone_permission_linux
RequestLinux(env) ==
    LET c == CheckLinuxAudioDevices(env) IN
    IF c.ok
    THEN Status(c.available, c.available,
                IF c.available THEN "Microphone available"
                ELSE "No microphone devices detected", NoDetails)
    ELSE Status(FALSE, FALSE, "Could not determine microphone status", Details(""))

\* request_microphone_permission: the branch compiled for the target
RequestMicrophonePermission(os, env) ==
    CASE os = "windows" -> RequestWindows(env)
      [] os = "macos" -> RequestMacos(env)
      [] os = "linux" -> RequestLinux(env)
      [] OTHER -> Status(TRUE, FALSE,
                         "Microphone permissions not supported on this platform",
                         NoDetails)

\* what the utilities print
TextSinks == <<83, 105, 110, 107, 115>>                               \* "Sinks"
CountOutputs ==
    { <<>>, <<48, 10>>, <<32, 32, 50, 10>>, <<43, 49>>, <<110, 47, 97>> }
                                        \* "", "0\n", "  2\n", "+1", "n/a"
ToolOutputs ==
    { <<>>, TextSinks, <<32>> \o TextMicrophone \o <<10>>, TextAudioSource }

WindowsEnvs ==
    [coInitOk : BOOLEAN, createOk : BOOLEAN, enumOk : BOOLEAN, countOk : BOOLEAN,
     count : 0..MaxDevices]
\* run: sh was started; tool: the utility at the head of the pipeline could be
\* started by sh (when it could not, `wc -l` counts no line); success: the
\* exit status of the pipeline
MacosEnvs ==
    { e \in [profiler : [run : BOOLEAN, success : BOOLEAN, tool : BOOLEAN,
                         out : CountOutputs],
             consent : [run : BOOLEAN, tool : BOOLEAN, out : CountOutputs]] :
        /\ ~e.profiler.tool => e.profiler.out = <<48, 10>>
        /\ ~e.consent.tool => e.consent.out = <<48, 10>> }
ToolRuns ==
    {[run |-> FALSE, success |-> FALSE, out |-> <<>>]}
    \cup [run : {TRUE}, success : BOOLEAN, out : ToolOutputs]
LinuxEnvs == [wpctl : ToolRuns, arecord : ToolRuns, pactl : ToolRuns]
NoEnv == [none |-> TRUE]

EnvsOf(os) ==
    CASE os = "windows" -> WindowsEnvs
      [] os = "macos" -> MacosEnvs
      [] os = "linux" -> LinuxEnvs
      [] OTHER -> {NoEnv}

Platforms == {"windows", "macos", "linux", "other"}

ProbeInit == platform \in Platforms /\ penv = NoEnv /\ pres = NoStatus
ProbeIdle == platform = "linux" /\ penv = NoEnv /\ pres = NoStatus

\* a call of request_microphone_permission, the OS answering as env
Probe ==
    \E env \in EnvsOf(platform) :
        /\ penv' = env
        /\ pres' = RequestMicrophonePermission(platform, env)
        /\ UNCHANGED platform

-----------------------------------------------------------------------------
(* EncodingDecoder: file_ops.rs detect_and_decode.  Bytes are a sequence of *)
(* numbers 0..255.                                                          *)

\* longest generated text, in code points
MaxText == 2
\* longest generated UTF-16 stream, in code units
MaxUnits == 3
\* longest generated raw byte sequence
MaxRaw == 3
\* longest generated CSV text, in characters
MaxCsv == 4

\* a continuation byte 10xxxxxx
IsCont(b) == b \in 128..191

\* std::str::from_utf8: the well-formed byte sequences of the Unicode
\* standard (no overlong form, no surrogate, nothing above U+10FFFF)
RECURSIVE Utf8Decode(_, _, _)
Utf8Decode(bytes, i, acc) ==
    IF i > Len(bytes) THEN [ok |-> TRUE, text |-> acc]
    ELSE LET b0 == bytes[i]
             B(k) == IF i + k <= Len(bytes) THEN bytes[i + k] ELSE -1
             second == IF b0 = 224 THEN 160..191
                       ELSE IF b0 = 237 THEN 128..159
                       ELSE IF b0 = 240 THEN 144..191
                       ELSE IF b0 = 244 THEN 128..143
                       ELSE 128..191
         IN  IF b0 < 128 THEN Utf8Decode(bytes, i + 1, Append(acc, b0))
             ELSE IF b0 \in 194..223 /\ IsCont(B(1))
             THEN Utf8Decode(bytes, i + 2, Append(acc, (b0 - 192) * 64 + (B(1) - 128)))
             ELSE IF b0 \in 224..239 /\ B(1) \in second /\ IsCont(B(2))
             THEN Utf8Decode(bytes, i + 3,
                     Append(acc, (b0 - 224) * 4096 + (B(1) - 128) * 64 + (B(2) - 128)))
             ELSE IF b0 \in 240..244 /\ B(1) \in second /\ IsCont(B(2)) /\ IsCont(B(3))
             THEN Utf8Decode(bytes, i + 4,
                     Append(acc, (b0 - 240) * 262144 + (B(1) - 128) * 4096
                                 + (B(2) - 128) * 64 + (B(3) - 128)))
             ELSE [ok |-> FALSE, text |-> <<>>]

\* chunks_exact(2) with u16::from_le_bytes / u16::from_be_bytes: the code
\* units of all the bytes given, an odd last byte left out
Utf16Units(bytes, le) ==
    [k \in 1..(Len(bytes) \div 2) |->
        IF le THEN bytes[2 * k - 1] + 256 * bytes[2 * k]
        ELSE 256 * bytes[2 * k - 1] + bytes[2 * k]]

\* String::from_utf16: surrogate pairs combined, a lone surrogate is an error
RECURSIVE FromUtf16(_, _, _)
FromUtf16(units, i, acc) ==
    IF i > Len(units) THEN [ok |-> TRUE, text |-> acc]
    ELSE LET u == units[i] IN
         IF u \in 55296..56319
         THEN IF i + 1 <= Len(units) /\ units[i + 1] \in 56320..57343
              THEN FromUtf16(units, i + 2,
                      Append(acc, 65536 + (u - 55296) * 1024 + (units[i + 1] - 56320)))
              ELSE [ok |-> FALSE, text |-> <<>>]
         ELSE IF u \in 56320..57343 THEN [ok |-> FALSE, text |-> <<>>]
         ELSE FromUtf16(units, i + 1, Append(acc, u))

\* Utf16Decode::from_utf16le / from_utf16be
FromUtf16Bytes(bytes, le) == FromUtf16(Utf16Units(bytes, le), 1, <<>>)

\* char::from_u32: a Unicode scalar value
IsScalar(cp) == cp \in 0..1114111 /\ cp \notin 55296..57343

\* the single-byte fallback with no byte moved: the defect of reading
\* 0x80..0x9F as the C1 controls of Latin-1
FallbackLatin1(bytes) == [i \in 1..Len(bytes) |-> bytes[i]]

\* the single-byte fallback: 0x80..0x9F moved to U+20AC + offset, '?' if that
\* were no scalar value, every other byte its own numeric value
Fallback(bytes) ==
    [i \in 1..Len(bytes) |->
        IF bytes[i] \in 128..159
        THEN IF IsScalar(8364 + (bytes[i] - 128)) THEN 8364 + (bytes[i] - 128) ELSE 63
        ELSE bytes[i]]

\* detect_and_decode with the byte-order mark looked at first: the defect of
\* letting a later rule win over UTF-8
DetectAndDecodeBomFirst(bytes) ==
    IF Len(bytes) >= 2 /\ bytes[1] = 255 /\ bytes[2] = 254
    THEN IF FromUtf16Bytes(bytes, TRUE).ok THEN Ok(FromUtf16Bytes(bytes, TRUE).text)
         ELSE Err(ENCODING_ERROR)
    ELSE IF Len(bytes) >= 2 /\ bytes[1] = 254 /\ bytes[2] = 255
    THEN IF FromUtf16Bytes(bytes, FALSE).ok THEN Ok(FromUtf16Bytes(bytes, FALSE).text)
         ELSE Err(ENCODING_ERROR)
    ELSE Ok(Fallback(bytes))

\* detect_and_decode(bytes)
DetectAndDecode(bytes) ==
    IF Utf8Decode(bytes, 1, <<>>).ok THEN Ok(Utf8Decode(bytes, 1, <<>>).text)
    ELSE IF Len(bytes) >= 2 /\ bytes[1] = 255 /\ bytes[2] = 254
    THEN IF FromUtf16Bytes(bytes, TRUE).ok THEN Ok(FromUtf16Bytes(bytes, TRUE).text)
         ELSE Err(ENCODING_ERROR)
    ELSE IF Len(bytes) >= 2 /\ bytes[1] = 254 /\ bytes[2] = 255
    THEN IF FromUtf16Bytes(bytes, FALSE).ok THEN Ok(FromUtf16Bytes(bytes, FALSE).text)
         ELSE Err(ENCODING_ERROR)
    ELSE Ok(Fallback(bytes))

-----------------------------------------------------------------------------
(* TabularParser: file_ops.rs parse_csv *)

\* char::is_whitespace (Unicode White_Space)
IsWhiteSpace(c) ==
    c \in (9..13) \cup {32, 133, 160, 5760, 8232, 8233, 8239, 8287, 12288} \cup (8192..8202)

\* str::trim
RECURSIVE TrimWsStart(_)
TrimWsStart(s) == IF s # <<>> /\ IsWhiteSpace(s[1]) THEN TrimWsStart(Tail(s)) ELSE s
RECURSIVE TrimWsEnd(_)
TrimWsEnd(s) ==
    IF s # <<>> /\ IsWhiteSpace(s[Len(s)]) THEN TrimWsEnd(SubSeq(s, 1, Len(s) - 1)) ELSE s
TrimWs(s) == TrimWsEnd(TrimWsStart(s))

\* index of the first c in s at or after i, 0 when there is none
RECURSIVE IndexOf(_, _, _)
IndexOf(s, c, i) ==
    IF i > Len(s) THEN 0 ELSE IF s[i] = c THEN i ELSE IndexOf(s, c, i + 1)

\* str::lines: the pieces ended by "\n", each without its "\n" and without a
\* "\r" before it; a last piece without "\n" is a line as it is
RECURSIVE Lines(_)
Lines(content) ==
    IF content = <<>> THEN <<>>
    ELSE LET j == IndexOf(content, 10, 1) IN
         IF j = 0 THEN <<content>>
         ELSE LET line == SubSeq(content, 1, j - 1)
                  bare == IF line # <<>> /\ line[Len(line)] = 13
                          THEN SubSeq(line, 1, Len(line) - 1) ELSE line
              IN  <<bare>> \o Lines(SubSeq(content, j + 1, Len(content)))

\* str::split(','): the pieces between the separators, empty ones kept
RECURSIVE Split(_, _)
Split(line, sep) ==
    LET j == IndexOf(line, sep, 1) IN
    IF j = 0 THEN <<line>>
    ELSE <<SubSeq(line, 1, j - 1)>> \o Split(SubSeq(line, j + 1, Len(line)), sep)

\* one record: the fields of a line, trimmed
Record(line) == [k \in 1..Len(Split(line, 44)) |-> TrimWs(Split(line, 44)[k])]

\* parse_csv that skips lines without content: the defect of dropping blank rows
ParseCsvSkipBlank(content) ==
    LET kept == SelectSeq(Lines(content), LAMBDA l : TrimWs(l) # <<>>)
        records == [i \in 1..Len(kept) |-> Record(kept[i])]
    IN  IF records = <<>> THEN Err(INVALID_FILE_FORMAT) ELSE Ok(records)

\* parse_csv(content)
ParseCsv(content) ==
    LET records == [i \in 1..Len(Lines(content)) |-> Record(Lines(content)[i])]
    IN  IF records = <<>> THEN Err(INVALID_FILE_FORMAT) ELSE Ok(records)

\* str::as_bytes: the UTF-8 bytes of a text
Utf8Bytes(cp) ==
    IF cp < 128 THEN <<cp>>
    ELSE IF cp < 2048 THEN <<192 + (cp \div 64), 128 + (cp % 64)>>
    ELSE IF cp < 65536
    THEN <<224 + (cp \div 4096), 128 + ((cp \div 64) % 64), 128 + (cp % 64)>>
    ELSE <<240 + (cp \div 262144), 128 + ((cp \div 4096) % 64),
           128 + ((cp \div 64) % 64), 128 + (cp % 64)>>
RECURSIVE AsBytes(_)
AsBytes(t) == IF t = <<>> THEN <<>> ELSE Utf8Bytes(t[1]) \o AsBytes(Tail(t))

\* the bytes of a stream of 16-bit code units, low or high byte first
UnitBytes(units, le) ==
    [i \in 1..(2 * Len(units)) |->
        LET u == units[(i + 1) \div 2] IN
        IF (i % 2 = 1) = le THEN u % 256 ELSE u \div 256]

\* the byte-order marks FF FE and FE FF
Bom(le) == IF le THEN <<255, 254>> ELSE <<254, 255>>

\* what a CSV file may hold: UTF-8 text, marked UTF-16 streams (also with lone
\* surrogates and an odd last byte), raw bytes, and plain CSV text
CodePoints == {65, 44, 10, 160, 233, 8364, 65279, 128512}
Texts == {<<>>} \cup SeqsUpTo(CodePoints, MaxText)
CodeUnits == {65, 8364, 55357, 56832, 65279}
UnitStreams == {<<>>} \cup SeqsUpTo(CodeUnits, MaxUnits)
RawBytes == {65, 128, 159, 195, 169, 237, 160, 254, 255}
CsvChars == {65, 44, 32, 10, 13}
ByteInputs ==
    {AsBytes(t) : t \in Texts}
    \cup {Bom(le) \o UnitBytes(u, le) \o odd :
            le \in BOOLEAN, u \in UnitStreams, odd \in {<<>>, <<65>>}}
    \cup SeqsUpTo(RawBytes, MaxRaw)
    \cup SeqsUpTo(CsvChars, MaxCsv)

CsvInit == dbytes \in ByteInputs /\ dres = NoResult /\ prows = NoResult
CsvIdle == dbytes = <<>> /\ dres = NoResult /\ prows = NoResult

\* the decoding step of read_csv
Decode ==
    /\ dres.kind = "none"
    /\ dres' = DetectAndDecode(dbytes)
    /\ UNCHANGED <<dbytes, prows>>

\* the parsing step of read_csv, on the text the decoder returned
Parse ==
    /\ dres.kind = "ok" /\ prows.kind = "none"
    /\ prows' = ParseCsv(dres.v)
    /\ UNCHANGED <<dbytes, dres>>

-----------------------------------------------------------------------------
(* Concurrent save_config calls.  A call is three file system steps: it     *)
(* reads the document, fs::write opens the file (creating or truncating     *)
(* it), fs::write writes the new text.  Nothing is locked in between.       *)

Procs == {1, 2}

\* save_config up to the text it is about to write: the path, the directory,
\* the existing document, the assignment and the serialization
SaveRead(pathOk, dir, file, key, value) ==
    IF GetConfigPath(pathOk).kind # "ok"
    THEN [res |-> GetConfigPath(pathOk), dir |-> dir, text |-> <<>>]
    ELSE IF dir = "uncreatable"
    THEN [res |-> Err(FILE_IO_ERROR), dir |-> dir, text |-> <<>>]
    ELSE LET dir1 == IF dir = "missing" THEN "exists" ELSE dir
             old == ExistingConfig(file)
         IN  IF old.kind # "ok" THEN [res |-> old, dir |-> dir1, text |-> <<>>]
             ELSE LET upd == IndexSet(old.v, key, value) IN
                  IF upd.kind # "ok" THEN [res |-> upd, dir |-> dir1, text |-> <<>>]
                  ELSE [res |-> Ok(JNull), dir |-> dir1, text |-> ToStringPretty(upd.v)]

\* fs::write opening the file without truncating it: the defect of leaving
\* the old content in place under the new
WriteOpenKeep(dir, file) ==
    IF ~CanWrite(dir, file) THEN [res |-> Err(FILE_IO_ERROR), file |-> file]
    ELSE [res |-> Ok(JNull),
          file |-> IF file.exists THEN file ELSE FileOf(<<>>, TRUE, TRUE)]

\* fs::write, first half: File::create makes the file or cuts it to length 0
WriteOpen(dir, file) ==
    IF ~CanWrite(dir, file) THEN [res |-> Err(FILE_IO_ERROR), file |-> file]
    ELSE [res |-> Ok(JNull),
          file |-> IF file.exists THEN FileOf(<<>>, file.readable, file.writable)
                   ELSE FileOf(<<>>, TRUE, TRUE)]

\* fs::write, second half: write_all puts the text at offset 0 of the file as
\* it is now; what another writer put beyond the text's end stays
WriteAll(file, text) ==
    FileOf(text \o SubSeq(file.text, Len(text) + 1, Len(file.text)),
           file.readable, file.writable)

\* the calls that race, and the documents they find
RaceValues == {JStr(TextEnergy), JNum(-12)}
RaceFiles ==
    {Absent, FileOf(<<123, 125>>, TRUE, TRUE), FileOf(TextDarkZoom, TRUE, TRUE),
     FileOf(TextDarkZoom, TRUE, FALSE)}

NoText == <<>>
RaceInit ==
    /\ sv \in [Procs -> [pc : {"start"}, key : SaveKeys, value : RaceValues,
                         text : {NoText}, res : {NoResult}]]
    /\ svLog = <<>>
RaceIdle ==
    /\ sv = [p \in Procs |-> [pc |-> "done", key |-> KeyTheme, value |-> JNull,
                              text |-> NoText, res |-> NoResult]]
    /\ svLog = <<>>

\* caller p reads the existing document and prepares the new text
RaceRead(p) ==
    /\ sv[p].pc = "start"
    /\ \E r \in {SaveRead(cfgPathOk, cfgDir, cfgFile, sv[p].key, sv[p].value)} :
          /\ cfgDir' = r.dir
          /\ sv' = [sv EXCEPT ![p].pc = IF r.res.kind = "ok" THEN "read" ELSE "done",
                              ![p].text = r.text,
                              ![p].res = IF r.res.kind = "ok" THEN NoResult ELSE r.res]
    /\ svLog' = Append(svLog, <<p, "read">>)
    /\ UNCHANGED <<cfgPathOk, cfgFile, cfgPrev, cfgLast, cfgLastSave, cfgSaved>>

\* caller p opens the file for writing
RaceOpen(p) ==
    /\ sv[p].pc = "read"
    /\ \E r \in {WriteOpen(cfgDir, cfgFile)} :
          /\ cfgFile' = r.file
          /\ sv' = [sv EXCEPT ![p].pc = IF r.res.kind = "ok" THEN "open" ELSE "done",
                              ![p].res = IF r.res.kind = "ok" THEN NoResult ELSE r.res]
    /\ svLog' = Append(svLog, <<p, "open">>)
    /\ UNCHANGED <<cfgPathOk, cfgDir, cfgPrev, cfgLast, cfgLastSave, cfgSaved>>

\* caller p writes its text and returns Ok(())
RaceWrite(p) ==
    /\ sv[p].pc = "open"
    /\ cfgFile' = WriteAll(cfgFile, sv[p].text)
    /\ sv' = [sv EXCEPT ![p].pc = "done", ![p].res = Ok(JNull)]
    /\ svLog' = Append(svLog, <<p, "write">>)
    /\ UNCHANGED <<cfgPathOk, cfgDir, cfgPrev, cfgLast, cfgLastSave, cfgSaved>>

-----------------------------------------------------------------------------
(* read_csv: file_ops.rs.  The allowed base is the directory of the config  *)
(* file; every file of the file system holds the same bytes.                *)

TextCount == <<99, 111, 117, 110, 116>>                       \* "count"
TextRecords == <<114, 101, 99, 111, 114, 100, 115>>           \* "records"
TextSuccess == <<115, 117, 99, 99, 101, 115, 115>>            \* "success"

\* json!({"success": true, "records": records, "count": records.len()})
CsvJson(records) ==
    JObj(MapInsert(MapInsert(MapInsert(<<>>,
        TextSuccess, JBool(TRUE)),
        TextRecords, JArr([i \in 1..Len(records) |->
                        JArr([k \in 1..Len(records[i]) |-> JStr(records[i][k])])])),
        TextCount, JNum(Len(records))))

\* what a read_csv call did: the steps it made in order, the outcome of the
\* validation, the path handed to fs::read, the decoded text, the records
ReadOutcome(res, steps, validation, readPath, decoded, records) ==
    [res |-> res, steps |-> steps, validation |-> validation, readPath |-> readPath,
     decoded |-> decoded, records |-> records]

\* read_csv that reads the file before it validates the path: the defect of
\* touching the file named by the caller
ReadCsvEarly(pathOk, ls, path, base, readable, bytes) ==
    LET v == ValidateCsvPath(ls, path, base)
        cp == Canonicalize(ls, path)
    IN  IF GetConfigPath(pathOk).kind # "ok"
        THEN ReadOutcome(GetConfigPath(pathOk), <<"get_config_path">>, VNone, <<>>,
                         NoResult, NoResult)
        ELSE IF ~(cp.ok /\ readable)
        THEN ReadOutcome(Err(FILE_IO_ERROR), <<"get_config_path", "read">>, VNone,
                         <<>>, NoResult, NoResult)
        ELSE IF v.kind # "ok"
        THEN ReadOutcome(Err(v.code), <<"get_config_path", "read", "validate">>, v,
                         cp.path, NoResult, NoResult)
        ELSE LET d == DetectAndDecode(bytes) IN
             IF d.kind # "ok"
             THEN ReadOutcome(d, <<"get_config_path", "read", "validate", "decode">>,
                              v, cp.path, d, NoResult)
             ELSE LET r == ParseCsv(d.v) IN
                  ReadOutcome(IF r.kind = "ok" THEN Ok(CsvJson(r.v)) ELSE r,
                      <<"get_config_path", "read", "validate", "decode", "parse">>,
                      v, cp.path, d, r)

\* read_csv(path)
ReadCsv(pathOk, ls, path, base, readable, bytes) ==
    IF GetConfigPath(pathOk).kind # "ok"
    THEN ReadOutcome(GetConfigPath(pathOk), <<"get_config_path">>, VNone, <<>>,
                     NoResult, NoResult)
    ELSE LET v == ValidateCsvPath(ls, path, base) IN
    IF v.kind # "ok"
    THEN ReadOutcome(Err(v.code), <<"get_config_path", "validate">>, v, <<>>,
                     NoResult, NoResult)
    ELSE IF NodeKind(ls, v.path) = "none"
    THEN ReadOutcome(Err(FILE_NOT_FOUND), <<"get_config_path", "validate", "exists">>,
                     v, <<>>, NoResult, NoResult)
    ELSE IF ~(readable /\ NodeKind(ls, v.path) = "file")
    THEN ReadOutcome(Err(FILE_IO_ERROR),
                     <<"get_config_path", "validate", "exists", "read">>,
                     v, v.path, NoResult, NoResult)
    ELSE LET d == DetectAndDecode(bytes) IN
    IF d.kind # "ok"
    THEN ReadOutcome(d, <<"get_config_path", "validate", "exists", "read", "decode">>,
                     v, v.path, d, NoResult)
    ELSE LET r == ParseCsv(d.v) IN
         ReadOutcome(IF r.kind = "ok" THEN Ok(CsvJson(r.v)) ELSE r,
             <<"get_config_path", "validate", "exists", "read", "decode", "parse">>,
             v, v.path, d, r)

\* the paths given to read_csv: the short and the deeply nested ones
ReadPaths == {p \in PathInputs : Len(p.comps) <= 2 \/ Len(p.comps) > MaxComps}
\* what the files hold: "A,A\nA", nothing, a marked UTF-16 stream with a
\* lone surrogate
ReadContents == {<<65, 44, 65, 10, 65>>, <<>>, <<255, 254, 0, 216>>}

NoRead ==
    [res |-> NoResult, steps |-> <<>>, readPath |-> <<>>, readable |-> FALSE]

ReadInit ==
    /\ cfgPathOk \in BOOLEAN
    /\ links = {} /\ vres = VNone
    /\ vreq \in [path : ReadPaths, base : BaseInputs]
    /\ dbytes \in ReadContents /\ dres = NoResult /\ prows = NoResult
    /\ rres = NoRead
ReadIdle == rres = NoRead

\* the command read_csv(path), the file readable or not
ReadCsvCall ==
    /\ rres.res.kind = "none"
    /\ \E readable \in BOOLEAN :
        \E r \in {ReadCsv(cfgPathOk, links, vreq.path, vreq.base, readable, dbytes)} :
          /\ rres' = [res |-> r.res, steps |-> r.steps, readPath |-> r.readPath,
                      readable |-> readable]
          /\ vres' = r.validation
          /\ dres' = r.decoded
          /\ prows' = r.records
    /\ UNCHANGED <<cfgPathOk, links, vreq, dbytes>>

-----------------------------------------------------------------------------
(* WindowGeometryManager at startup: window.rs setup_window *)

TextFullscreen == <<102, 117, 108, 108, 115, 99, 114, 101, 101, 110>>   \* "fullscreen"
TextNormal == <<110, 111, 114, 109, 97, 108>>                           \* "normal"
TextOverlayCap == <<79, 118, 101, 114, 108, 97, 121>>                   \* "Overlay"
KeyMode == <<109, 111, 100, 101>>                                       \* "mode"

\* the main window: size, position and attributes
LiveWindow(exists, w, h) ==
    [exists |-> exists, width |-> w, height |-> h, x |-> 0, y |-> 0,
     centered |-> FALSE, onTop |-> FALSE, fullscreen |-> FALSE]

\* a window API call
Call(op, a, b) == [op |-> op, a |-> a, b |-> b]

\* the window after a call that succeeded
ApplyCall(w, c) ==
    CASE c.op = "set_size" -> [w EXCEPT !.width = c.a, !.height = c.b]
      [] c.op = "center" -> [w EXCEPT !.centered = TRUE]
      [] c.op = "set_position" -> [w EXCEPT !.x = c.a, !.y = c.b, !.centered = FALSE]
      [] c.op = "set_always_on_top" -> [w EXCEPT !.onTop = TRUE]
      [] c.op = "set_fullscreen" -> [w EXCEPT !.fullscreen = TRUE]

\* setup_normal_window, setup_overlay_window, setup_fullscreen_window: the
\* calls each makes, in order
ModeCalls(mode) ==
    CASE mode = "overlay" ->
            <<Call("set_size", 400, 600), Call("set_position", 100, 100),
              Call("set_always_on_top", 1, 0)>>
      [] mode = "fullscreen" -> <<Call("set_fullscreen", 1, 0)>>
      [] OTHER -> <<Call("set_size", 1200, 800), Call("center", 0, 0)>>

\* the calls made one after the other; the fail-th call (0: none) fails, which
\* ends the setup with INVALID_WINDOW_POSITION
RECURSIVE RunCalls(_, _, _, _)
RunCalls(w, calls, i, fail) ==
    IF i > Len(calls) THEN [win |-> w, made |-> calls, res |-> Ok(JNull)]
    ELSE IF i = fail
    THEN [win |-> w, made |-> SubSeq(calls, 1, i), res |-> Err(INVALID_WINDOW_POSITION)]
    ELSE RunCalls(ApplyCall(w, calls[i]), calls, i + 1, fail)

\* the mode the string names
ModeOf(config_str) ==
    IF config_str = TextOverlay THEN "overlay"
    ELSE IF config_str = TextFullscreen THEN "fullscreen"
    ELSE "normal"

\* the result of setup_window
SetupOutcome(loaded, mode, run) ==
    [loaded |-> loaded, loads |-> 1, mode |-> mode, made |-> run.made,
     res |-> run.res, win |-> run.win]

\* setup_window with the stored string compared without regard to case: the
\* defect of recognising more values than the two mode names
SetupWindowAnyCase(pathOk, file, w, fail) ==
    LET loaded == LoadConfig(pathOk, file, KeyWindow)
        config_str == IF loaded.kind = "ok" /\ loaded.v.t = "str"
                      THEN ToLowercase(loaded.v.s) ELSE TextNormal
    IN  IF w.exists
        THEN SetupOutcome(loaded, ModeOf(config_str),
                          RunCalls(w, ModeCalls(ModeOf(config_str)), 1, fail))
        ELSE SetupOutcome(loaded, "none", [win |-> w, made |-> <<>>, res |-> Ok(JNull)])

\* setup_window(app): load_config("window_config"), any failure or value that
\* is not a string read as "normal"; the mode applied to the main window if
\* there is one
SetupWindow(pathOk, file, w, fail) ==
    LET loaded == LoadConfig(pathOk, file, KeyWindow)
        config_str == IF loaded.kind = "ok" /\ loaded.v.t = "str"
                      THEN loaded.v.s ELSE TextNormal
    IN  IF w.exists
        THEN SetupOutcome(loaded, ModeOf(config_str),
                          RunCalls(w, ModeCalls(ModeOf(config_str)), 1, fail))
        ELSE SetupOutcome(loaded, "none", [win |-> w, made |-> <<>>, res |-> Ok(JNull)])

\* what the config file holds under "window_config" when the app starts
StartValues ==
    { JStr(TextOverlay), JStr(TextFullscreen), JStr(TextNormal), JStr(TextOverlayCap),
      JStr(<<>>), JNull, JNum(1),
      JObj(<<[k |-> KeyMode, v |-> JStr(TextOverlay)]>>) }
StartFiles ==
    {Absent, FileOf(TextDarkZoom, TRUE, TRUE), FileOf(<<123>>, TRUE, TRUE),
     FileOf(ToStringPretty(JObj(<<[k |-> KeyWindow, v |-> JStr(TextOverlay)]>>)), FALSE, TRUE)}
    \cup {FileOf(ToStringPretty(JObj(<<[k |-> KeyWindow, v |-> v]>>)), TRUE, TRUE) :
            v \in StartValues}
    \cup {FileOf(ToStringPretty(JObj(MapInsert(DocDarkZoom.m, KeyWindow,
                                                 JStr(TextFullscreen)))),
                 TRUE, TRUE)}

NoSetup ==
    [loaded |-> NoResult, loads |-> 0, mode |-> "none", made |-> <<>>, res |-> NoResult]
StartInit ==
    /\ stWin \in {LiveWindow(e, w, 600) : e \in BOOLEAN, w \in {800, 1200}}
    /\ stRun = NoSetup
StartIdle == stWin = LiveWindow(FALSE, 800, 600) /\ stRun = NoSetup

\* the setup hook of run(): setup_window is called once, when the app starts
Setup ==
    /\ stRun.res.kind = "none"
    /\ \E fail \in 0..3 :
          \E r \in {SetupWindow(cfgPathOk, cfgFile, stWin, fail)} :
              /\ stWin' = r.win
              /\ stRun' = [loaded |-> r.loaded, loads |-> r.loads, mode |-> r.mode,
                           made |-> r.made, res |-> r.res]

-----------------------------------------------------------------------------
(* ConfigStore: load_config while save_config calls are in progress *)

NoLoad(key) == [key |-> key, res |-> NoResult, at |-> 0, seen |-> Absent]
LoadInit == ld \in {NoLoad(k) : k \in {KeyTheme, KeyZoom}}
LoadIdle == ld = NoLoad(KeyTheme)

\* load_config(key) on the file as it is at this moment; at: how many file
\* system steps the savers had made
RaceLoad ==
    /\ ld.res.kind = "none"
    /\ ld' = [key |-> ld.key, res |-> LoadConfig(cfgPathOk, cfgFile, ld.key),
              at |-> Len(svLog), seen |-> cfgFile]
    /\ UNCHANGED <<cfgVars, raceVars>>

-----------------------------------------------------------------------------
(* Specifications: one per component, the other components idle *)

ConfigInit == CfgInit /\ PathIdle /\ WinIdle /\ ProbeIdle /\ CsvIdle /\ RaceIdle /\ ReadIdle /\ StartIdle /\ LoadIdle
ConfigNext ==
    \/ Save /\ UNCHANGED <<pathVars, winVars, probeVars, csvVars, raceVars, readVars, startVars, loadVars>>
    \/ Load /\ UNCHANGED <<pathVars, winVars, probeVars, csvVars, raceVars, readVars, startVars, loadVars>>
SpecConfig == ConfigInit /\ [][ConfigNext]_vars

ValidatorInit == CfgIdle /\ PathInit /\ WinIdle /\ ProbeIdle /\ CsvIdle /\ RaceIdle /\ ReadIdle /\ StartIdle /\ LoadIdle
ValidatorNext ==
    \/ Symlink /\ UNCHANGED <<cfgVars, winVars, probeVars, csvVars, raceVars, readVars, startVars, loadVars>>
    \/ Unlink /\ UNCHANGED <<cfgVars, winVars, probeVars, csvVars, raceVars, readVars, startVars, loadVars>>
    \/ Validate /\ UNCHANGED <<cfgVars, winVars, probeVars, csvVars, raceVars, readVars, startVars, loadVars>>
SpecValidator == ValidatorInit /\ [][ValidatorNext]_vars

WindowInit == CfgIdle /\ PathIdle /\ WinInit /\ ProbeIdle /\ CsvIdle /\ RaceIdle /\ ReadIdle /\ StartIdle /\ LoadIdle
WindowNext == SetPosition /\ UNCHANGED <<cfgVars, pathVars, probeVars, csvVars, raceVars, readVars, startVars, loadVars>>
SpecWindow == WindowInit /\ [][WindowNext]_vars

PermissionInit == CfgIdle /\ PathIdle /\ WinIdle /\ ProbeInit /\ CsvIdle /\ RaceIdle /\ ReadIdle /\ StartIdle /\ LoadIdle
PermissionNext == Probe /\ UNCHANGED <<cfgVars, pathVars, winVars, csvVars, raceVars, readVars, startVars, loadVars>>
SpecPermission == PermissionInit /\ [][PermissionNext]_vars

CsvSpecInit == CfgIdle /\ PathIdle /\ WinIdle /\ ProbeIdle /\ CsvInit /\ RaceIdle /\ ReadIdle /\ StartIdle /\ LoadIdle
CsvNext ==
    \/ Decode /\ UNCHANGED <<cfgVars, pathVars, winVars, probeVars, raceVars, readVars, startVars, loadVars>>
    \/ Parse /\ UNCHANGED <<cfgVars, pathVars, winVars, probeVars, raceVars, readVars, startVars, loadVars>>
SpecCsv == CsvSpecInit /\ [][CsvNext]_vars

\* two callers, each making one save_config call, on a config directory that exists
RaceSpecInit ==
    /\ cfgPathOk = TRUE /\ cfgDir = "exists" /\ cfgFile \in RaceFiles
    /\ cfgPrev = cfgFile /\ cfgLast = NoCall /\ cfgLastSave = NoSave /\ cfgSaved = {}
    /\ PathIdle /\ WinIdle /\ ProbeIdle /\ CsvIdle /\ RaceInit /\ ReadIdle /\ StartIdle /\ LoadIdle
RaceNext ==
    \/ \E p \in Procs : RaceRead(p) /\ UNCHANGED <<pathVars, winVars, probeVars, csvVars, readVars, startVars, loadVars>>
    \/ \E p \in Procs : RaceOpen(p) /\ UNCHANGED <<pathVars, winVars, probeVars, csvVars, readVars, startVars, loadVars>>
    \/ \E p \in Procs : RaceWrite(p) /\ UNCHANGED <<pathVars, winVars, probeVars, csvVars, readVars, startVars, loadVars>>
SpecRace == RaceSpecInit /\ [][RaceNext]_vars

\* read_csv calls on every file system the links can form
ReadSpecInit ==
    /\ cfgDir = "exists" /\ cfgFile = Absent /\ cfgPrev = Absent
    /\ cfgLast = NoCall /\ cfgLastSave = NoSave /\ cfgSaved = {}
    /\ WinIdle /\ ProbeIdle /\ RaceIdle /\ ReadInit /\ StartIdle /\ LoadIdle
ReadNext ==
    \/ rres.res.kind = "none" /\ Symlink
          /\ UNCHANGED <<cfgVars, winVars, probeVars, csvVars, raceVars, readVars, startVars, loadVars>>
    \/ rres.res.kind = "none" /\ Unlink
          /\ UNCHANGED <<cfgVars, winVars, probeVars, csvVars, raceVars, readVars, startVars, loadVars>>
    \/ ReadCsvCall
          /\ UNCHANGED <<cfgDir, cfgFile, cfgPrev, cfgLast, cfgLastSave, cfgSaved,
                         winVars, probeVars, raceVars, startVars, loadVars>>
SpecReadCsv == ReadSpecInit /\ [][ReadNext]_vars

\* the app starts: setup_window on the config file the last run left
StartSpecInit ==
    /\ cfgPathOk \in BOOLEAN /\ cfgDir = "exists" /\ cfgFile \in StartFiles
    /\ cfgPrev = cfgFile /\ cfgLast = NoCall /\ cfgLastSave = NoSave /\ cfgSaved = {}
    /\ PathIdle /\ WinIdle /\ ProbeIdle /\ CsvIdle /\ RaceIdle /\ ReadIdle
    /\ StartInit /\ LoadIdle
StartNext ==
    Setup /\ UNCHANGED <<cfgVars, pathVars, winVars, probeVars, csvVars, raceVars,
                         readVars, loadVars>>
SpecStartup == StartSpecInit /\ [][StartNext]_vars

\* two save_config calls in progress and a load_config call at any moment
LoadRaceInit ==
    /\ cfgPathOk = TRUE /\ cfgDir = "exists" /\ cfgFile \in RaceFiles
    /\ cfgPrev = cfgFile /\ cfgLast = NoCall /\ cfgLastSave = NoSave /\ cfgSaved = {}
    /\ PathIdle /\ WinIdle /\ ProbeIdle /\ CsvIdle /\ RaceInit /\ ReadIdle
    /\ StartIdle /\ LoadInit
LoadRaceNext ==
    \/ \E p \in Procs : RaceRead(p)
          /\ UNCHANGED <<pathVars, winVars, probeVars, csvVars, readVars, startVars, loadVars>>
    \/ \E p \in Procs : RaceOpen(p)
          /\ UNCHANGED <<pathVars, winVars, probeVars, csvVars, readVars, startVars, loadVars>>
    \/ \E p \in Procs : RaceWrite(p)
          /\ UNCHANGED <<pathVars, winVars, probeVars, csvVars, readVars, startVars, loadVars>>
    \/ RaceLoad
          /\ UNCHANGED <<pathVars, winVars, probeVars, csvVars, readVars, startVars>>
SpecLoadRace == LoadRaceInit /\ [][LoadRaceNext]_vars

\* the whole layer: every component live at once
Init == CfgInit /\ PathInit /\ WinInit /\ ProbeInit /\ CsvInit /\ RaceIdle /\ ReadIdle /\ StartIdle /\ LoadIdle
Next ==
    \/ Save /\ UNCHANGED <<pathVars, winVars, probeVars, csvVars, raceVars, readVars, startVars, loadVars>>
    \/ Load /\ UNCHANGED <<pathVars, winVars, probeVars, csvVars, raceVars, readVars, startVars, loadVars>>
    \/ Symlink /\ UNCHANGED <<cfgVars, winVars, probeVars, csvVars, raceVars, readVars, startVars, loadVars>>
    \/ Unlink /\ UNCHANGED <<cfgVars, winVars, probeVars, csvVars, raceVars, readVars, startVars, loadVars>>
    \/ Validate /\ UNCHANGED <<cfgVars, winVars, probeVars, csvVars, raceVars, readVars, startVars, loadVars>>
    \/ SetPosition /\ UNCHANGED <<cfgVars, pathVars, probeVars, csvVars, raceVars, readVars, startVars, loadVars>>
    \/ Probe /\ UNCHANGED <<cfgVars, pathVars, winVars, csvVars, raceVars, readVars, startVars, loadVars>>
    \/ Decode /\ UNCHANGED <<cfgVars, pathVars, winVars, probeVars, raceVars, readVars, startVars, loadVars>>
    \/ Parse /\ UNCHANGED <<cfgVars, pathVars, winVars, probeVars, raceVars, readVars, startVars, loadVars>>
Spec == Init /\ [][Next]_vars

-----------------------------------------------------------------------------
(* Properties of the ConfigStore, checked under SpecConfig *)

\* keys of the document a file holds, none when it does not parse to an object
DocKeys(file) ==
    IF file.exists /\ file.readable /\ FromStr(file.text).ok
       /\ FromStr(file.text).v.t = "obj"
    THEN {FromStr(file.text).v.m[i].k : i \in 1..Len(FromStr(file.text).v.m)}
    ELSE {}

\* C1: a save(k, v) that returned success, followed with no save in between
\* by load(k), makes that load return exactly v.
C1_SaveThenLoadRoundTrip ==
    (cfgLast.op = "load" /\ cfgLastSave.ok /\ cfgLast.key = cfgLastSave.key)
        => cfgLast.res = Ok(cfgLastSave.val)

\* C1 witness: save("theme", "Energy") succeeded and load("theme") returned "Energy"
C1_Witness ==
    /\ cfgLast.op = "load" /\ cfgLast.key = KeyTheme
    /\ cfgLastSave = [ok |-> TRUE, key |-> KeyTheme, val |-> JStr(TextEnergy)]
    /\ cfgLast.res = Ok(JStr(TextEnergy))

\* C2: a successful save(k2, v2) leaves every other key as it was: each key
\* that could be loaded before still loads to the same value, no key other
\* than k2 appears, and a load of any key saved earlier returns the value last
\* saved under it however many other keys were saved since.
C2_SiblingKeysPreserved ==
    /\ (cfgLast.op = "save" /\ cfgLast.res.kind = "ok") =>
          /\ \A k \in (AllKeys \cup DocKeys(cfgPrev)) \ {cfgLast.key} :
                LoadConfig(cfgPathOk, cfgPrev, k).kind = "ok"
                    => LoadConfig(cfgPathOk, cfgFile, k) = LoadConfig(cfgPathOk, cfgPrev, k)
          /\ DocKeys(cfgFile) = DocKeys(cfgPrev) \cup {cfgLast.key}
    /\ cfgLast.op = "load" =>
          \A e \in cfgSaved : e.k = cfgLast.key => cfgLast.res = Ok(e.v)

\* C2 witness: "theme" was saved, then "window_config", and load("theme")
\* still returns the value saved first
C2_Witness ==
    /\ cfgLast.op = "load" /\ cfgLast.key = KeyTheme
    /\ cfgLastSave.ok /\ cfgLastSave.key = KeyWindow
    /\ [k |-> KeyTheme, v |-> JStr(TextEnergy)] \in cfgSaved
    /\ cfgLast.res = Ok(JStr(TextEnergy))

\* the file holds a document in which key is not set
KeyUnset(file, key) ==
    /\ file.exists /\ file.readable /\ FromStr(file.text).ok
    /\ key \notin DocKeys(file)

\* what C3 says of a load that found the file in state file
LoadContract(file, key, res) ==
    /\ (~file.exists \/ KeyUnset(file, key)) => res = Ok(JNull)
    /\ (file.exists /\ file.readable /\ ~FromStr(file.text).ok)
          => res = Err(INVALID_FILE_FORMAT)
    /\ (file.exists /\ file.readable /\ res.kind # "ok")
          => (~FromStr(file.text).ok /\ res = Err(INVALID_FILE_FORMAT))

\* C3 as stated: load on an unset key or a missing file returns null and never
\* an error, and on an existing readable file the only failure is a document
\* that does not parse, reported as INVALID_FILE_FORMAT.
C3_LoadNeverFailsOnMissing ==
    cfgLast.op = "load" => LoadContract(cfgFile, cfgLast.key, cfgLast.res)

\* C3 amended: the same, provided the config path can be resolved; when it
\* cannot, load fails with UNKNOWN_ERROR.
C3_LoadContractWhenPathResolves ==
    cfgLast.op = "load" =>
        /\ cfgPathOk => LoadContract(cfgFile, cfgLast.key, cfgLast.res)
        /\ ~cfgPathOk => cfgLast.res = Err(UNKNOWN_ERROR)

\* C3 witness: a load with no config file on disk returned null
C3_Witness ==
    /\ cfgLast.op = "load" /\ cfgPathOk /\ ~cfgFile.exists
    /\ cfgLast.res = Ok(JNull)

-----------------------------------------------------------------------------
(* Properties of the PathValidator, checked under SpecValidator *)

\* p lies under root: root's components are the first components of p
Under(p, root) ==
    /\ Len(root) <= Len(p)
    /\ \A i \in 1..Len(root) : p[i] = root[i]

\* where the arguments of the call resolve to
CanonPath == Canonicalize(links, vreq.path)
CanonBase == Canonicalize(links, vreq.base)

\* the name ends in ".csv" in any letter case, after at least one character
EndsWithCsv(n) ==
    /\ Len(n) >= 5
    /\ n[Len(n) - 3] = 46
    /\ n[Len(n) - 2] \in {99, 67}
    /\ n[Len(n) - 1] \in {115, 83}
    /\ n[Len(n)] \in {118, 86}

\* the requested path names a file with extension csv
RequestHasCsvExtension ==
    LET n == SelectSeq(vreq.path.comps, LAMBDA c : c # NDot) IN
    n # <<>> /\ EndsWithCsv(n[Len(n)])

\* C4: whenever validate_csv_path succeeds the path it returns is the
\* canonical path and lies under the canonical allowed root, and a path that
\* resolves outside the root is rejected, also when it starts inside the root
\* and leaves it through a link or "..".
C4_Containment ==
    vres.kind # "none" =>
        /\ vres.kind = "ok" =>
              /\ CanonPath.ok /\ CanonBase.ok
              /\ vres.path = CanonPath.path
              /\ Under(vres.path, CanonBase.path)
        /\ (CanonPath.ok /\ CanonBase.ok /\ ~Under(CanonPath.path, CanonBase.path))
              => vres.kind = "err"

\* C4 witness: /cfg/ln/a.csv, reached through the link /cfg/ln -> /out, is
\* rejected for the root /cfg
C4_Witness ==
    /\ vreq = [path |-> Abs(<<NCfg, NLn, NACsv>>), base |-> Abs(<<NCfg>>)]
    /\ [at |-> <<NCfg, NLn>>, to |-> <<NOut>>] \in links
    /\ CanonPath = [ok |-> TRUE, path |-> <<NOut, NACsv>>]
    /\ vres = VErr(FILE_PERMISSION_DENIED)

\* the request names an existing file with extension csv strictly inside the root
ExistingCsvInsideRoot ==
    /\ RequestHasCsvExtension
    /\ CanonPath.ok /\ NodeKind(links, CanonPath.path) = "file"
    /\ CanonBase.ok
    /\ Under(CanonPath.path, CanonBase.path) /\ CanonPath.path # CanonBase.path

\* C5 as stated: every existing file with extension csv, in any letter case,
\* strictly inside the allowed root is accepted with its canonical path.
C5_EveryCsvInsideRootAccepted ==
    (vres.kind # "none" /\ ExistingCsvInsideRoot) => vres = VOk(CanonPath.path)

\* C5 amended: such a file is accepted with its canonical path when that path
\* has at most 10 components, the root directory counted; a deeper one is
\* rejected with FILE_PERMISSION_DENIED.
C5_CsvInsideRootAcceptedUpToDepth ==
    (vres.kind # "none" /\ ExistingCsvInsideRoot) =>
        IF 1 + Len(CanonPath.path) <= 10
        THEN vres = VOk(CanonPath.path)
        ELSE vres = VErr(FILE_PERMISSION_DENIED)

\* C5 witness: B.CSV, upper-case extension, inside /cfg is accepted
C5_Witness ==
    /\ vreq = [path |-> Rel(<<NBCSV>>), base |-> Abs(<<NCfg>>)]
    /\ vres = VOk(<<NCfg, NBCSV>>)

\* C6: a path whose extension is missing or is not csv is rejected with
\* INVALID_FILE_FORMAT whether or not it exists and wherever it lies.
C6_ExtensionGate ==
    (vres.kind # "none" /\ ~RequestHasCsvExtension) => vres = VErr(INVALID_FILE_FORMAT)

\* C6 witness: /out/n.txt does not exist, lies outside the root, and is
\* rejected for its extension
C6_Witness ==
    /\ vreq = [path |-> Abs(<<NOut, NNTxt>>), base |-> Abs(<<NCfg>>)]
    /\ ~CanonPath.ok
    /\ vres = VErr(INVALID_FILE_FORMAT)

-----------------------------------------------------------------------------
(* Properties of the WindowGeometryManager, checked under SpecWindow *)

MeetsFloors(r) == r.x >= 0 /\ r.y >= 0 /\ r.width >= 400 /\ r.height >= 300

\* the rectangle with each field raised to its floor
Floored(r) ==
    Rect(IF r.x < 0 THEN 0 ELSE r.x, IF r.y < 0 THEN 0 ELSE r.y,
         IF r.width < 400 THEN 400 ELSE r.width,
         IF r.height < 300 THEN 300 ELSE r.height)

\* C7: for every input rectangle the output of constrain_to_screen has
\* x >= 0, y >= 0, width >= 400 and height >= 300.
C7_ClampFloors == wres.kind # "none" => MeetsFloors(wclamped)

\* C7 witness: the smallest x, a negative y and sizes below both floors
C7_Witness ==
    /\ wreq = Rect(I32_MIN, -50, 0, 150)
    /\ wres.kind # "none"
    /\ wclamped = Rect(0, 0, 400, 300)

\* C8: clamping a clamped rectangle changes nothing, and a rectangle that
\* already meets the floors is returned unchanged.
C8_ClampIdempotent ==
    wres.kind # "none" =>
        /\ constrain_to_screen(wclamped) = wclamped
        /\ MeetsFloors(wreq) => wclamped = wreq

\* C8 witness: a rectangle that was changed by the clamp and is stable under it
C8_Witness ==
    /\ wres.kind # "none"
    /\ wreq = Rect(-100, 0, 200, 300)
    /\ wclamped = Rect(0, 0, 400, 300)
    /\ constrain_to_screen(wclamped) = wclamped

\* C9: a successful set_position leaves the window at the clamped request,
\* applied as position first and size second, so the applied geometry meets
\* the floors; {-100, -50, 200, 150} is applied as {0, 0, 400, 300}.  When
\* the size call fails the position already applied is the clamped one.
C9_SetPositionClamps ==
    /\ wres.kind = "ok" =>
          /\ win = Floored(wreq)
          /\ MeetsFloors(win)
          /\ winCalls = <<"set_position", "set_size">>
    /\ (wres.kind = "ok" /\ wreq = Rect(-100, -50, 200, 150)) => win = Rect(0, 0, 400, 300)
    /\ (wres.kind = "err" /\ Len(winCalls) = 2) =>
          (win.x = Floored(wreq).x /\ win.y = Floored(wreq).y)

\* C9 witness: the request {-100, -50, 200, 150} succeeded
C9_Witness ==
    /\ wres.kind = "ok"
    /\ wreq = Rect(-100, -50, 200, 150)
    /\ win = Rect(0, 0, 400, 300)

-----------------------------------------------------------------------------
(* Properties of the PermissionProbe, checked under SpecPermission *)

\* the probe could not determine the status: an OS call or utility it needs
\* failed, or (Linux) no tool of the chain ran successfully
ProbeFailed ==
    CASE platform = "windows" -> ~penv.createOk \/ ~penv.enumOk \/ ~penv.countOk
      [] platform = "macos" ->
            ~penv.profiler.run \/ ~penv.profiler.success \/ ~penv.consent.run
      [] platform = "linux" ->
            \A t \in {penv.wpctl, penv.arecord, penv.pactl} : ~(t.run /\ t.success)
      [] OTHER -> FALSE

-----------------------------------------------------------------------------
(* Properties of the EncodingDecoder and the TabularParser, checked under   *)
(* SpecCsv                                                                  *)

\* the call returned Ok(v); the call returned the error code
IsOk(r, v) == r.kind = "ok" /\ r.v = v
IsErr(r, code) == r.kind = "err" /\ r.code = code

\* the texts whose encodings are among the inputs
PlainTexts == Texts \cup SeqsUpTo(CsvChars, MaxCsv) \cup SeqsUpTo({65}, MaxRaw)
\* each of those texts with its UTF-8 bytes (str::as_bytes is one-to-one)
Utf8Pairs == {<<AsBytes(t), t>> : t \in PlainTexts}
Utf8Inputs == {AsBytes(t) : t \in PlainTexts}

\* C11: for every text t, detect_and_decode of the UTF-8 bytes of t succeeds
\* and returns exactly t, also where a later decoding rule would give
\* another text for the same bytes.
C11_Utf8Identity ==
    dres.kind # "none" =>
        (dbytes \in Utf8Inputs => (dres.kind = "ok" /\ <<dbytes, dres.v>> \in Utf8Pairs))

\* C11 witness: the bytes C3 A9 E2 82 AC decode to the two characters they
\* encode, not to the five the single-byte rule would give
C11_Witness ==
    /\ dbytes = <<195, 169, 226, 130, 172>>
    /\ IsOk(dres, <<233, 8364>>)

\* the UTF-16 code units of a text
RECURSIVE Utf16Encode(_)
Utf16Encode(t) ==
    IF t = <<>> THEN <<>>
    ELSE (IF t[1] < 65536 THEN <<t[1]>>
          ELSE <<55296 + ((t[1] - 65536) \div 1024), 56320 + ((t[1] - 65536) % 1024)>>)
         \o Utf16Encode(Tail(t))

\* the stream holds a surrogate that is not half of a pair
RECURSIVE HasLoneSurrogate(_)
HasLoneSurrogate(u) ==
    IF u = <<>> THEN FALSE
    ELSE IF u[1] \in 55296..56319
    THEN IF Len(u) >= 2 /\ u[2] \in 56320..57343 THEN HasLoneSurrogate(Tail(Tail(u)))
         ELSE TRUE
    ELSE IF u[1] \in 56320..57343 THEN TRUE
    ELSE HasLoneSurrogate(Tail(u))

\* C12: for every text t the bytes FF FE + t in UTF-16LE, and FE FF + t in
\* UTF-16BE, decode to exactly t; a marked stream with an invalid surrogate
\* sequence yields ENCODING_ERROR.
C12_Utf16RoundTrip ==
    dres.kind # "none" =>
        \A le \in BOOLEAN :
            /\ \A t \in Texts :
                  dbytes = Bom(le) \o UnitBytes(Utf16Encode(t), le) => IsOk(dres, t)
            /\ \A u \in UnitStreams :
                  (dbytes = Bom(le) \o UnitBytes(u, le) /\ HasLoneSurrogate(u))
                      => IsErr(dres, ENCODING_ERROR)

\* the characters of s that are not white space, in order
NonWs(s) == SelectSeq(s, LAMBDA c : ~IsWhiteSpace(c))

\* how many times c occurs in s
Count(s, c) == Cardinality({i \in 1..Len(s) : s[i] = c})

\* the fields of all rows, each row's fields joined by ','
RECURSIVE Joined(_)
Joined(rows) ==
    IF rows = <<>> THEN <<>>
    ELSE LET r == rows[1]
             RECURSIVE Row(_)
             Row(k) == IF k > Len(r) THEN <<>>
                       ELSE (IF k > 1 THEN <<44>> ELSE <<>>) \o r[k] \o Row(k + 1)
         IN  Row(1) \o Joined(Tail(rows))

\* C13: parse_csv fails, with INVALID_FILE_FORMAT, exactly on the empty text;
\* otherwise it returns one row per line in input order (at least one), the
\* fields of a row being the pieces of its line between the commas with the
\* white space at both ends removed, so that no field holds a comma.
C13_ParseCsv ==
    prows.kind # "none" =>
        /\ prows.kind = "err" <=> dres.v = <<>>
        /\ prows.kind = "err" => IsErr(prows, INVALID_FILE_FORMAT)
        /\ prows.kind = "ok" =>
              /\ Len(prows.v) >= 1
              /\ Len(prows.v) = Count(dres.v, 10)
                                + (IF dres.v[Len(dres.v)] # 10 THEN 1 ELSE 0)
              /\ \A i \in 1..Len(prows.v) :
                    /\ Len(prows.v[i]) >= 1
                    /\ \A k \in 1..Len(prows.v[i]) :
                          LET f == prows.v[i][k] IN
                          /\ Count(f, 44) = 0
                          /\ f # <<>> => (~IsWhiteSpace(f[1]) /\ ~IsWhiteSpace(f[Len(f)]))
              /\ NonWs(Joined(prows.v)) = NonWs(dres.v)

\* C13 witness: "A,\nA" gives a row of two fields and a row of one
C13_Witness ==
    /\ IsOk(dres, <<65, 44, 10, 65>>)
    /\ IsOk(prows, << <<(<<65>>), <<>>>>, <<(<<65>>)>> >>)

-----------------------------------------------------------------------------
(* Properties of concurrent saves, checked under SpecRace *)

\* when caller p made the step, as a position in the log (0: not made)
Pos(p, step) ==
    IF \E i \in 1..Len(svLog) : svLog[i] = <<p, step>>
    THEN CHOOSE i \in 1..Len(svLog) : svLog[i] = <<p, step>>
    ELSE 0

\* both calls returned Ok(()) and were for different keys
BothSaved ==
    /\ \A p \in Procs : sv[p].pc = "done" /\ sv[p].res.kind = "ok"
    /\ sv[1].key # sv[2].key

\* first's fs::write was over before second's began, both having read the
\* document before either wrote
LostUpdateRun(first, second) ==
    /\ Pos(first, "read") < Pos(first, "open") /\ Pos(second, "read") < Pos(first, "open")
    /\ Pos(first, "write") < Pos(second, "open")

\* first's call was over before second's began
SerialRun(first, second) == Pos(first, "write") < Pos(second, "read")

\* C14: of two successful saves of different keys that both read the document
\* before either writes, only the last writer's update is in the document at
\* the end, the other key being as it was before both calls; when the calls
\* do not overlap both updates are there.
C14_LostUpdate ==
    BothSaved =>
        \A first \in Procs : \A second \in Procs \ {first} :
            /\ LostUpdateRun(first, second) =>
                  /\ LoadConfig(TRUE, cfgFile, sv[second].key) = Ok(sv[second].value)
                  /\ LoadConfig(TRUE, cfgFile, sv[first].key)
                        = LoadConfig(TRUE, cfgPrev, sv[first].key)
                  /\ LoadConfig(TRUE, cfgFile, sv[first].key) # Ok(sv[first].value)
                  /\ DocKeys(cfgFile) = DocKeys(cfgPrev) \cup {sv[second].key}
            /\ SerialRun(first, second) =>
                  /\ LoadConfig(TRUE, cfgFile, sv[first].key) = Ok(sv[first].value)
                  /\ LoadConfig(TRUE, cfgFile, sv[second].key) = Ok(sv[second].value)

\* C14 witness: both calls returned success, caller 1 wrote first and its key
\* is not in the document
C14_Witness ==
    /\ BothSaved
    /\ LostUpdateRun(1, 2)
    /\ sv[1].key \notin DocKeys(cfgFile)
    /\ sv[2].key \in DocKeys(cfgFile)

-----------------------------------------------------------------------------
(* save_config on any existing content, checked under SpecConfig *)

\* the file system lets the last save through: the path resolves, the file
\* it found could be read and written, or could be created
FileSystemAllowedSave ==
    /\ cfgPathOk
    /\ cfgDir = "exists" \/ (cfgDir = "readonly" /\ cfgPrev.exists)
    /\ cfgPrev.exists => (cfgPrev.readable /\ cfgPrev.writable)

\* C15: whatever the config file held before (nothing, an empty text, text
\* that does not parse, or any other content), a save(k, v) whose file
\* system operations succeed returns success, and load(k) then returns v.
C15_SaveAlwaysSucceeds ==
    /\ (cfgLast.op = "save" /\ FileSystemAllowedSave) =>
          /\ cfgLast.res.kind = "ok"
          /\ LoadConfig(cfgPathOk, cfgFile, cfgLast.key) = Ok(cfgLast.val)
    /\ (cfgLast.op = "save" /\ FileSystemAllowedSave
        /\ cfgPrev.exists /\ ~FromStr(cfgPrev.text).ok) =>
          DocKeys(cfgFile) = {cfgLast.key}

-----------------------------------------------------------------------------
(* Properties of read_csv, checked under SpecReadCsv *)

\* the position of a step among the steps of the call (0: not made)
StepAt(name) ==
    IF \E i \in 1..Len(rres.steps) : rres.steps[i] = name
    THEN CHOOSE i \in 1..Len(rres.steps) : rres.steps[i] = name
    ELSE 0

\* C16: read_csv reads the file only after validate_csv_path succeeded in the
\* same call and reads the canonical path the validator returned; when the
\* validation fails its error is returned and nothing is read, decoded or
\* parsed.
C16_ValidateBeforeRead ==
    rres.res.kind # "none" =>
        /\ StepAt("read") > 0 =>
              /\ 0 < StepAt("validate") /\ StepAt("validate") < StepAt("read")
              /\ vres.kind = "ok" /\ rres.readPath = vres.path
              /\ CanonPath.ok /\ rres.readPath = CanonPath.path
        /\ (StepAt("decode") > 0 \/ StepAt("parse") > 0) => StepAt("read") > 0
        /\ vres.kind = "err" =>
              /\ IsErr(rres.res, vres.code)
              /\ StepAt("read") = 0 /\ StepAt("decode") = 0 /\ StepAt("parse") = 0
        /\ (~RequestHasCsvExtension \/ ~CanonPath.ok \/ ~CanonBase.ok
            \/ ~Under(CanonPath.path, CanonBase.path)) => StepAt("read") = 0

\* C16 witness: read_csv("a.csv") validated, then read /cfg/a.csv and parsed it
C16_Witness ==
    /\ rres.res.kind = "ok"
    /\ vreq = [path |-> Rel(<<NACsv>>), base |-> Abs(<<NCfg>>)]
    /\ rres.steps = <<"get_config_path", "validate", "exists", "read", "decode", "parse">>
    /\ rres.readPath = <<NCfg, NACsv>>

\* the code validate_csv_path gives a path with extension csv, by stage
StageCode ==
    IF ~CanonPath.ok THEN FILE_PERMISSION_DENIED
    ELSE IF 1 + Len(CanonPath.path) > 10 THEN FILE_PERMISSION_DENIED
    ELSE IF ~CanonBase.ok THEN UNKNOWN_ERROR
    ELSE IF ~Under(CanonPath.path, CanonBase.path) THEN FILE_PERMISSION_DENIED
    ELSE ""

\* the validator, when it ran on a path with extension csv, failed with the
\* code of the first stage that fails, or accepted the path
StagesInOrder ==
    (vres.kind # "none" /\ RequestHasCsvExtension) =>
        IF StageCode = "" THEN vres.kind = "ok" ELSE vres = VErr(StageCode)

\* C17 as stated: after the extension gate the stages are: path cannot be
\* canonicalized -> FILE_PERMISSION_DENIED, more than 10 components ->
\* FILE_PERMISSION_DENIED, root cannot be canonicalized -> UNKNOWN_ERROR, not
\* under the root -> FILE_PERMISSION_DENIED; and read_csv on a missing .csv
\* file reports FILE_PERMISSION_DENIED.
C17_StageCodes ==
    rres.res.kind # "none" =>
        /\ StagesInOrder
        /\ (RequestHasCsvExtension /\ ~CanonPath.ok)
              => IsErr(rres.res, FILE_PERMISSION_DENIED)

\* C17 amended: the same stages; read_csv on a missing .csv file reports
\* FILE_PERMISSION_DENIED once the config directory is determined, and
\* UNKNOWN_ERROR, without validating, when it cannot be determined.
C17_StageCodesWhenPathResolves ==
    rres.res.kind # "none" =>
        /\ StagesInOrder
        /\ cfgPathOk <=> vres.kind # "none"
        /\ (cfgPathOk /\ RequestHasCsvExtension /\ ~CanonPath.ok)
              => IsErr(rres.res, FILE_PERMISSION_DENIED)
        /\ ~cfgPathOk => IsErr(rres.res, UNKNOWN_ERROR)

\* C17 witness: a nested file 11 components deep, asked for with a root that
\* does not exist, is refused for its depth, not for the root
C17_Witness ==
    /\ rres.res.kind = "err" /\ cfgPathOk
    /\ vreq = [path |-> Abs(Append(Nested(8), NACsv)), base |-> Abs(<<NCfg, NLn>>)]
    /\ ~CanonBase.ok
    /\ vres = VErr(FILE_PERMISSION_DENIED)

-----------------------------------------------------------------------------
(* Properties of the platform strategies, checked under SpecPermission *)

\* the tool ran and exited successfully
Succeeded(t) == t.run /\ t.success

\* an OS interaction the strategy made failed: the enumeration API returned an
\* error, or a utility it called could not be started or exited unsuccessfully
InteractionFailed ==
    CASE platform = "windows" -> ~penv.createOk \/ ~penv.enumOk \/ ~penv.countOk
      [] platform = "macos" ->
            \/ ~Succeeded(penv.profiler)
            \/ ~penv.consent.run
      [] platform = "linux" -> ~Succeeded(penv.wpctl)
      [] OTHER -> FALSE

\* the strategy's check returned an error, and the reason it gave
CheckError ==
    CASE platform = "windows" /\ ~penv.createOk -> Details("Failed to create device enumerator")
      [] platform = "windows" /\ penv.createOk /\ ~penv.enumOk ->
            Details("Failed to enumerate audio endpoints")
      [] platform = "windows" /\ penv.createOk /\ penv.enumOk /\ ~penv.countOk ->
            Details("Failed to get device count")
      [] platform = "macos" /\ ~penv.profiler.run -> Details("Failed to check audio devices")
      [] platform = "macos" /\ Succeeded(penv.profiler) /\ ~penv.consent.run ->
            Details("Failed to check permission")
      [] OTHER -> NoDetails

Reports(name) ==
    CASE name = "wpctl" -> \/ Contains(penv.wpctl.out, TextMicrophone)
                           \/ Contains(penv.wpctl.out, TextAudioSource)
      [] name = "arecord" -> penv.arecord.out # <<>>
      [] name = "pactl" -> penv.pactl.out # <<>>

ChainOrder == <<"wpctl", "arecord", "pactl">>
ToolOf(name) ==
    CASE name = "wpctl" -> penv.wpctl
      [] name = "arecord" -> penv.arecord
      [] name = "pactl" -> penv.pactl

\* C19: on Linux the tools are consulted in the order wpctl, arecord, pactl
\* and the first tool that both runs successfully and reports a device
\* determines the result; a tool that cannot be run, exits unsuccessfully, or
\* runs successfully but reports no device does not end the chain, so
\* available = false results only when no tool of the chain reports a device.
C19_FirstReportingToolDecides ==
    (pres.kind # "none" /\ platform = "linux") =>
        (pres.available <=>
            \E i \in 1..Len(ChainOrder) :
                Succeeded(ToolOf(ChainOrder[i])) /\ Reports(ChainOrder[i]))

\* what each macOS check produces by itself from the count its pipeline prints
OwnAvailable == ParseUsizeOr0(Trim(penv.profiler.out)) > 0
OwnGranted == ParseUsizeOr0(Trim(penv.consent.out)) > 0
\* the tool of the check could not be invoked: sh could not be started, or sh
\* could not start the utility
DeviceInvokeFailed == ~penv.profiler.run \/ ~penv.profiler.tool
ConsentInvokeFailed == ~penv.consent.run \/ ~penv.consent.tool

\* C20 as stated: on macOS the device-count check and the consent-record
\* check are independent and best-effort: a failure to invoke the tool of one
\* check makes only that axis false and leaves the other axis at the value
\* its own check produced, and neither failure is a hard failure.
C20_AxesIndependent ==
    (pres.kind # "none" /\ platform = "macos") =>
        /\ pres.kind = "ok"
        /\ DeviceInvokeFailed =>
              /\ ~pres.available
              /\ pres.granted = (~ConsentInvokeFailed /\ OwnGranted)
        /\ ConsentInvokeFailed =>
              /\ ~pres.granted
              /\ pres.available = (~DeviceInvokeFailed /\ OwnAvailable)

\* C20 amended: on macOS, when the shells of both checks start and the device
\* pipeline exits successfully, each axis has the value of its own check, and
\* a utility that sh cannot start makes only its own axis false.  When the
\* shell of the device check cannot be started, or that of the consent check
\* cannot be started after a successful device check, both axes are false and
\* the reason is in details; when the device pipeline exits unsuccessfully
\* the consent check is not made and the status is available = true,
\* granted = false.  No case is an error.
C20_AxesWhenShellsStart ==
    (pres.kind # "none" /\ platform = "macos") =>
        /\ pres.kind = "ok"
        /\ (Succeeded(penv.profiler) /\ penv.consent.run) =>
              /\ pres.available = OwnAvailable /\ pres.granted = OwnGranted
              /\ ~penv.profiler.tool => ~pres.available
              /\ ~penv.consent.tool => ~pres.granted
              /\ ~pres.details.some
        /\ (~penv.profiler.run \/ (Succeeded(penv.profiler) /\ ~penv.consent.run)) =>
              ~pres.available /\ ~pres.granted /\ pres.details.some
        /\ (penv.profiler.run /\ ~penv.profiler.success) =>
              pres.available /\ ~pres.granted /\ ~pres.details.some

\* C20 witness: sh could not start system_profiler, so no device is counted,
\* while the consent records are found: available = false, granted = true
C20_Witness ==
    /\ pres.kind = "ok" /\ platform = "macos"
    /\ Succeeded(penv.profiler) /\ ~penv.profiler.tool
    /\ penv.consent.run /\ penv.consent.tool /\ OwnGranted
    /\ ~pres.available /\ pres.granted

-----------------------------------------------------------------------------
(* The single-byte fallback of the EncodingDecoder, checked under SpecCsv *)

\* the characters whose UTF-8 bytes are all among the generated raw bytes
RawScalars ==
    {cp \in 0..65535 :
        IsScalar(cp) /\ \A i \in 1..Len(Utf8Bytes(cp)) : Utf8Bytes(cp)[i] \in RawBytes}
\* the inputs that are the UTF-8 encoding of some text
ValidUtf8 == Utf8Inputs \cup {AsBytes(t) : t \in SeqsUpTo(RawScalars, MaxRaw)}
\* the input starts with FF FE or FE FF
HasBom(bytes) ==
    Len(bytes) >= 2 /\ (<<bytes[1], bytes[2]>> = <<255, 254>> \/ <<bytes[1], bytes[2]>> = <<254, 255>>)

-----------------------------------------------------------------------------
(* Properties of the startup, checked under SpecStartup *)

\* the value the config file holds under "window_config", null when there is
\* none to be had
StoredMode ==
    IF cfgPathOk /\ cfgFile.exists /\ cfgFile.readable /\ FromStr(cfgFile.text).ok
    THEN LET doc == FromStr(cfgFile.text).v IN
         IF doc.t = "obj" /\ MapHas(doc.m, KeyWindow) THEN MapGet(doc.m, KeyWindow)
         ELSE JNull
    ELSE JNull
StoredIs(name) == StoredMode.t = "str" /\ StoredMode.s = name
Called(op) == \E i \in 1..Len(stRun.made) : stRun.made[i].op = op

\* C22: setup_window reads "window_config" once and, on the main window,
\* applies Overlay (400x600 at (100,100), always on top) exactly when the
\* stored value is the string "overlay", Fullscreen exactly when it is
\* "fullscreen", and Normal (1200x800, centered) in every other case.
C22_StartupMode ==
    stRun.res.kind # "none" =>
        /\ stRun.loads = 1
        /\ stWin.exists =>
              /\ stRun.mode = "overlay" <=> StoredIs(TextOverlay)
              /\ stRun.mode = "fullscreen" <=> StoredIs(TextFullscreen)
              /\ stRun.mode = "normal" <=> (~StoredIs(TextOverlay) /\ ~StoredIs(TextFullscreen))
              /\ (Called("set_position") \/ Called("set_always_on_top"))
                    => stRun.mode = "overlay"
              /\ Called("set_fullscreen") => stRun.mode = "fullscreen"
              /\ Called("center") => stRun.mode = "normal"
              /\ (stRun.res.kind = "ok" /\ stRun.mode = "overlay") =>
                    /\ stWin.width = 400 /\ stWin.height = 600
                    /\ stWin.x = 100 /\ stWin.y = 100 /\ stWin.onTop
                    /\ ~stWin.fullscreen
              /\ (stRun.res.kind = "ok" /\ stRun.mode = "fullscreen") =>
                    stWin.fullscreen /\ ~stWin.onTop
              /\ (stRun.res.kind = "ok" /\ stRun.mode = "normal") =>
                    /\ stWin.width = 1200 /\ stWin.height = 800 /\ stWin.centered
                    /\ ~stWin.fullscreen /\ ~stWin.onTop

\* C22 witness: the file holds "window_config": "overlay" and the window came
\* up 400x600 at (100,100), always on top
C22_Witness ==
    /\ stRun.res.kind = "ok" /\ StoredIs(TextOverlay)
    /\ stRun.mode = "overlay"
    /\ stWin.exists /\ stWin.width = 400 /\ stWin.height = 600
    /\ stWin.x = 100 /\ stWin.y = 100 /\ stWin.onTop

\* the codes of errors.rs
Taxonomy ==
    { FILE_NOT_FOUND, FILE_PERMISSION_DENIED, INVALID_FILE_FORMAT, ENCODING_ERROR,
      FILE_IO_ERROR, "WINDOW_NOT_FOUND", INVALID_WINDOW_POSITION, "MONITOR_NOT_FOUND",
      "MICROPHONE_DENIED", "MICROPHONE_UNAVAILABLE", "PERMISSION_ERROR",
      UNKNOWN_ERROR, "INVALID_INPUT" }

\* C23: every failure inside the components is returned to the caller as an
\* error whose code is in the taxonomy, none swallowed but a corrupt document
\* met during save; in particular a load failure met while the window mode
\* is recalled at startup is returned by setup_window, not swallowed.
C23_FailuresReturned ==
    stRun.res.kind # "none" =>
        /\ stRun.res.kind \in {"ok", "err"}
        /\ stRun.res.kind = "err" => stRun.res.code \in Taxonomy
        /\ LoadConfig(cfgPathOk, cfgFile, KeyWindow).kind = "err" =>
              IsErr(stRun.res, LoadConfig(cfgPathOk, cfgFile, KeyWindow).code)

-----------------------------------------------------------------------------
(* Properties of a load during saves, checked under SpecLoadRace *)

\* the key had a value in the document as it was before the saves began
SetBefore(key) ==
    /\ cfgPrev.exists /\ FromStr(cfgPrev.text).ok
    /\ FromStr(cfgPrev.text).v.t = "obj"
    /\ MapHas(FromStr(cfgPrev.text).v.m, key)

\* the file the load saw is the document before the saves, or the whole
\* document one of the saves wrote
SawWholeDocument ==
    \/ ld.seen = cfgPrev
    \/ \E p \in Procs : sv[p].text # NoText /\ ld.seen.exists /\ ld.seen.text = sv[p].text

\* C25: a load(k) running concurrently with a save of the same document sees
\* the complete document from before the save or the complete document after
\* it: it never fails with INVALID_FILE_FORMAT and never returns null for a
\* key that was set before the save began (no save removes a key).
C25_ReadersSeeWholeDocument ==
    ld.res.kind # "none" =>
        /\ SawWholeDocument
        /\ ~IsErr(ld.res, INVALID_FILE_FORMAT)
        /\ SetBefore(ld.key) => ~(ld.res.kind = "ok" /\ ld.res.v.t = "null")

=============================================================================
